---- MODULE Spec2Model ----
(***************************************************************************)
(* The in-memory message-queue store of msg_q: the Message predicates, the *)
(* GetMessageOptions construction and matching predicate, and the Memory   *)
(* repository (get_message, create_message, get_info, queue_list).         *)
(*                                                                         *)
(* The store is a map QueueName -> Queue behind one std::sync::Mutex.      *)
(* Every lock section is one step of the model.  create_message takes the  *)
(* lock twice (purge_expired_messages, then the insertion), so it is two   *)
(* steps and other callers may run in between.  Instant::now() is the      *)
(* variable clock, advanced by Tick.                                       *)
(***************************************************************************)
EXTENDS Integers, Sequences, FiniteSets, TLC

\* ---- bounds -------------------------------------------------------------
MaxClock == 2
MaxMsgs == 2
MaxOrder == 3

\* ---- input alphabets ----------------------------------------------------
Procs == {"p1", "p2"}
QueueNames == {"q1", "q2"}
\* Uuid::new_v4() draws fresh ids; the n-th draw is UuidOf[n]
UuidOf == <<"u1", "u2", "u3", "u4", "u5", "u6">>
MsgUuids == {UuidOf[i] : i \in 1..MaxMsgs}
OrdUuids == {UuidOf[i] : i \in 1..MaxOrder}
CidUuids == {"c1"}
Absent == "-"

\* ---- Option<T>, Reservation, Expiry --------------------------------------
None == [some |-> FALSE]
Some(x) == [some |-> TRUE, v |-> x]

Unreserved == [tag |-> "Unreserved"]
Until(i) == [tag |-> "Until", inst |-> i]
Permanent == [tag |-> "Permanent"]
Expire(i) == [tag |-> "Expire", inst |-> i]

\* impl From<Option<Instant>> for Expiry
ExpiryFrom(o) == IF o.some THEN Expire(o.v) ELSE Permanent

\* ---- Message --------------------------------------------------------------
\* faulty variant: the content of the request is not copied into the message
MessageNew_NoContent(mid, cid, content, expiry) ==
    [mid |-> mid, cid |-> cid, content |-> "", cursor |-> 0,
     reservation |-> Unreserved, expiry |-> ExpiryFrom(expiry)]

\* Message::new
MessageNew(mid, cid, content, expiry) ==
    [mid |-> mid, cid |-> cid, content |-> content, cursor |-> 0,
     reservation |-> Unreserved, expiry |-> ExpiryFrom(expiry)]

\* faulty variant: the lease still holds at its instant
is_reserved_Sticky(msg, now) ==
    IF msg.reservation.tag = "Unreserved" THEN FALSE
    ELSE now <= msg.reservation.inst

\* faulty variant: a lease never lapses
is_reserved_Forever(msg, now) == msg.reservation.tag # "Unreserved"

\* Message::is_reserved
is_reserved(msg, now) ==
    IF msg.reservation.tag = "Unreserved" THEN FALSE
    ELSE now < msg.reservation.inst

\* faulty variant: the message is still live at its expiry instant
is_expired_Late(msg, now) ==
    IF msg.expiry.tag = "Permanent" THEN FALSE
    ELSE now > msg.expiry.inst

is_expired(msg, now) ==
    IF msg.expiry.tag = "Permanent" THEN FALSE
    ELSE now >= msg.expiry.inst

set_reservation(msg, inst) ==
    IF inst.some THEN [msg EXCEPT !.reservation = Until(inst.v)] ELSE msg

\* faulty variant: the lease is left in place
remove_reservation_Keep(msg) == msg

remove_reservation(msg) == [msg EXCEPT !.reservation = Unreserved]

set_cursor(msg, c) == [msg EXCEPT !.cursor = c]

\* ---- parsing ----------------------------------------------------------------
\* GetMessageError::MissingParameter(text) / InvalidParameter(text)
Err(kind, field) == [ok |-> FALSE, err |-> kind, field |-> field]

\* faulty variant: the raw name is kept as it is
Trim_Keep(s) == s

\* str::trim on the raw names the model uses
Trim(s) ==
    CASE s = " q1" -> "q1"
      [] s = "q1 " -> "q1"
      [] s = " q2 " -> "q2"
      [] s = " " -> ""
      [] OTHER -> s

\* impl TryFrom<&String> for QueueName
QueueNameTryFrom(raw) ==
    IF Trim(raw) = "" THEN [ok |-> FALSE] ELSE [ok |-> TRUE, v |-> Trim(raw)]

\* faulty variant: the token is matched without regard to case
ActionTryFrom_AnyCase(s) ==
    CASE s \in {"browse", "Browse"} -> [ok |-> TRUE, v |-> "Browse"]
      [] s = "get" -> [ok |-> TRUE, v |-> "Get"]
      [] s = "reserve" -> [ok |-> TRUE, v |-> "Reserve"]
      [] s = "confirm" -> [ok |-> TRUE, v |-> "Confirm"]
      [] s = "return" -> [ok |-> TRUE, v |-> "Return"]
      [] s = "query" -> [ok |-> TRUE, v |-> "Query"]
      [] OTHER -> Err("InvalidParameter", s \o " is not valid for action")

\* impl TryFrom<&str> for GetMessageAction
ActionTryFrom(s) ==
    CASE s = "browse" -> [ok |-> TRUE, v |-> "Browse"]
      [] s = "get" -> [ok |-> TRUE, v |-> "Get"]
      [] s = "reserve" -> [ok |-> TRUE, v |-> "Reserve"]
      [] s = "confirm" -> [ok |-> TRUE, v |-> "Confirm"]
      [] s = "return" -> [ok |-> TRUE, v |-> "Return"]
      [] s = "query" -> [ok |-> TRUE, v |-> "Query"]
      [] OTHER -> Err("InvalidParameter", s \o " is not valid for action")

\* Uuid::try_parse: the well-formed uuid strings of the model
UuidTryParse(s) ==
    IF s \in MsgUuids \cup CidUuids THEN [ok |-> TRUE, v |-> s] ELSE [ok |-> FALSE]

\* str::parse::<u64> / str::parse::<usize> on decimal strings
ParseInt(s) ==
    CASE s = "0" -> [ok |-> TRUE, v |-> 0]
      [] s = "1" -> [ok |-> TRUE, v |-> 1]
      [] s = "2" -> [ok |-> TRUE, v |-> 2]
      [] s = "3" -> [ok |-> TRUE, v |-> 3]
      [] s = "4" -> [ok |-> TRUE, v |-> 4]
      [] OTHER -> [ok |-> FALSE]

needs_mid(gmo) ==
    IF gmo.mid.some THEN [ok |-> TRUE] ELSE Err("MissingParameter", "id")

no_reservation(gmo) ==
    IF gmo.reservation.some THEN Err("InvalidParameter", "reservation_seconds")
    ELSE [ok |-> TRUE]

needs_reservation(gmo) ==
    IF gmo.reservation.some THEN [ok |-> TRUE]
    ELSE Err("MissingParameter", "reservation_seconds")

\* faulty variant: browse is not checked for a reservation
validate_BrowseFree(action, gmo) ==
    CASE action = "Reserve" -> needs_reservation(gmo)
      [] action = "Confirm" -> needs_mid(gmo)
      [] action = "Return" -> needs_mid(gmo)
      [] action = "Query" -> no_reservation(gmo)
      [] OTHER -> [ok |-> TRUE]

\* GetMessageAction::validate
validate(action, gmo) ==
    CASE action = "Reserve" -> needs_reservation(gmo)
      [] action = "Confirm" -> needs_mid(gmo)
      [] action = "Return" -> needs_mid(gmo)
      [] action = "Query" -> no_reservation(gmo)
      [] action = "Browse" -> no_reservation(gmo)
      [] OTHER -> [ok |-> TRUE]

\* One optional key of the parameter map: absent -> None, parsed -> Some,
\* malformed -> the error named by the code at that key.
OptField(m, key, parsed, errfield) ==
    IF key \notin DOMAIN m THEN [ok |-> TRUE, v |-> None]
    ELSE IF parsed.ok THEN [ok |-> TRUE, v |-> Some(parsed.v)]
    ELSE Err("InvalidParameter", errfield)

PlusNow(parsed, now) ==
    IF parsed.ok THEN [ok |-> TRUE, v |-> now + parsed.v] ELSE parsed

\* impl TryFrom<HashMap<String, String>> for GetMessageOptions, run when
\* Instant::now() = now.  The keys are read in the order of the code and the
\* first failure is returned.
try_from(m, now) ==
    IF "queue_name" \notin DOMAIN m THEN Err("MissingParameter", "queue_name")
    ELSE IF ~QueueNameTryFrom(m["queue_name"]).ok THEN Err("InvalidParameter", "queue_name")
    ELSE IF "action" \notin DOMAIN m THEN Err("MissingParameter", "action")
    ELSE IF ~ActionTryFrom(m["action"]).ok THEN ActionTryFrom(m["action"])
    ELSE
    LET mid == OptField(m, "mid", IF "mid" \in DOMAIN m THEN UuidTryParse(m["mid"]) ELSE [ok |-> FALSE], "mid")
        cid == OptField(m, "cid", IF "cid" \in DOMAIN m THEN UuidTryParse(m["cid"]) ELSE [ok |-> FALSE], "mid")
        reservation == OptField(m, "reservation_seconds",
                         IF "reservation_seconds" \in DOMAIN m
                         THEN PlusNow(ParseInt(m["reservation_seconds"]), now) ELSE [ok |-> FALSE],
                         "reservation_seconds")
        expiry == OptField(m, "expiry_seconds",
                         IF "expiry_seconds" \in DOMAIN m
                         THEN PlusNow(ParseInt(m["expiry_seconds"]), now) ELSE [ok |-> FALSE],
                         "reservation_seconds")
        cursor == OptField(m, "after",
                         IF "after" \in DOMAIN m THEN ParseInt(m["after"]) ELSE [ok |-> FALSE],
                         "after")
    IN  IF ~mid.ok THEN mid
        ELSE IF ~cid.ok THEN cid
        ELSE IF ~reservation.ok THEN reservation
        ELSE IF ~expiry.ok THEN expiry
        ELSE IF ~cursor.ok THEN cursor
        ELSE LET gmo == [queue_name |-> QueueNameTryFrom(m["queue_name"]).v,
                         action |-> ActionTryFrom(m["action"]).v,
                         mid |-> mid.v, cid |-> cid.v,
                         reservation |-> reservation.v, expiry |-> expiry.v,
                         cursor |-> cursor.v]
                 chk == validate(gmo.action, gmo)
             IN  IF chk.ok THEN [ok |-> TRUE, v |-> gmo] ELSE chk

\* ---- matching ---------------------------------------------------------------
\* faulty variant: the expiry of the message is not consulted
Eligible_NoExpiry(gmo, msg, now) ==
    /\ ~is_reserved(msg, now)
    /\ (~gmo.mid.some \/ msg.mid = gmo.mid.v)
    /\ (~gmo.cid.some \/ msg.cid = gmo.cid)
    /\ (~gmo.cursor.some \/ msg.cursor > gmo.cursor.v)

\* faulty variant: the cid of the options is not compared
Eligible_AnyCid(gmo, msg, now) ==
    /\ ~is_reserved(msg, now)
    /\ ~is_expired(msg, now)
    /\ (~gmo.mid.some \/ msg.mid = gmo.mid.v)
    /\ (~gmo.cursor.some \/ msg.cursor > gmo.cursor.v)

\* faulty variant: a message at the cursor of the options passes too
Eligible_AtCursor(gmo, msg, now) ==
    /\ ~is_reserved(msg, now)
    /\ ~is_expired(msg, now)
    /\ (~gmo.mid.some \/ msg.mid = gmo.mid.v)
    /\ (~gmo.cid.some \/ msg.cid = gmo.cid)
    /\ (~gmo.cursor.some \/ msg.cursor >= gmo.cursor.v)

\* the Browse, Get and Reserve arms of GetMessageOptions::matches
Eligible(gmo, msg, now) ==
    /\ ~is_reserved(msg, now)
    /\ ~is_expired(msg, now)
    /\ (~gmo.mid.some \/ msg.mid = gmo.mid.v)
    /\ (~gmo.cid.some \/ msg.cid = gmo.cid)
    /\ (~gmo.cursor.some \/ msg.cursor > gmo.cursor.v)

\* faulty variant: confirm matches on the id alone
matches_AckUnleased(gmo, msg, now) ==
    CASE gmo.action \in {"Browse", "Get", "Reserve"} -> Eligible(gmo, msg, now)
      [] gmo.action = "Confirm" -> msg.mid = gmo.mid.v
      [] gmo.action = "Return" -> is_reserved(msg, now) /\ msg.mid = gmo.mid.v
      [] OTHER -> FALSE

\* faulty variant: confirm and return also apply the cid and after filters
matches_AckFiltered(gmo, msg, now) ==
    CASE gmo.action \in {"Browse", "Get", "Reserve"} -> Eligible(gmo, msg, now)
      [] gmo.action \in {"Confirm", "Return"} ->
           /\ is_reserved(msg, now) /\ msg.mid = gmo.mid.v
           /\ (~gmo.cid.some \/ msg.cid = gmo.cid)
           /\ (~gmo.cursor.some \/ msg.cursor > gmo.cursor.v)
      [] OTHER -> FALSE

\* GetMessageOptions::matches.  The Query arm is unreachable!(): get_message
\* panics before it asks for a truth value (see get_message).
matches(gmo, msg, now) ==
    CASE gmo.action = "Browse" -> Eligible(gmo, msg, now)
      [] gmo.action = "Get" -> Eligible(gmo, msg, now)
      [] gmo.action = "Reserve" -> Eligible(gmo, msg, now)
      [] gmo.action = "Confirm" -> is_reserved(msg, now) /\ msg.mid = gmo.mid.v
      [] gmo.action = "Return" -> is_reserved(msg, now) /\ msg.mid = gmo.mid.v
      [] OTHER -> FALSE

\* faulty variant: the last matching message instead of the first
position_Last(gmo, msgs, now) ==
    IF \E i \in 1..Len(msgs) : matches(gmo, msgs[i], now)
    THEN CHOOSE i \in 1..Len(msgs) :
           /\ matches(gmo, msgs[i], now)
           /\ \A j \in (i + 1)..Len(msgs) : ~matches(gmo, msgs[j], now)
    ELSE 0

\* messages.iter().position(|e| gmo.matches(e)): 1-based, 0 when none matches
position(gmo, msgs, now) ==
    IF \E i \in 1..Len(msgs) : matches(gmo, msgs[i], now)
    THEN CHOOSE i \in 1..Len(msgs) :
           /\ matches(gmo, msgs[i], now)
           /\ \A j \in 1..(i - 1) : ~matches(gmo, msgs[j], now)
    ELSE 0

\* faulty variant: the element at the back is removed instead of the one at idx
RemoveAt_Back(s, idx) == SubSeq(s, 1, Len(s) - 1)

\* VecDeque::remove(idx)
RemoveAt(s, idx) == SubSeq(s, 1, idx - 1) \o SubSeq(s, idx + 1, Len(s))

\* faulty variant: the sweep also drops every message that carries a lease
RECURSIVE Retain_Leased(_, _)
Retain_Leased(s, now) ==
    IF s = <<>> THEN <<>>
    ELSE IF is_expired(Head(s), now) \/ Head(s).reservation.tag = "Until"
         THEN Retain_Leased(Tail(s), now)
    ELSE <<Head(s)>> \o Retain_Leased(Tail(s), now)

\* faulty variant: the sweep leaves the kept messages in reverse order
RECURSIVE Retain_Reverse(_, _)
Retain_Reverse(s, now) ==
    IF s = <<>> THEN <<>>
    ELSE IF is_expired(Head(s), now) THEN Retain_Reverse(Tail(s), now)
    ELSE Retain_Reverse(Tail(s), now) \o <<Head(s)>>

\* VecDeque::retain(|m| !m.is_expired())
RECURSIVE Retain(_, _)
Retain(s, now) ==
    IF s = <<>> THEN <<>>
    ELSE IF is_expired(Head(s), now) THEN Retain(Tail(s), now)
    ELSE <<Head(s)>> \o Retain(Tail(s), now)

\* faulty variant: get returns the message and leaves it in the queue
get_message_impl_GetKeeps(gmo, queue, idx) ==
    CASE gmo.action \in {"Browse", "Get"} ->
           [queue |-> queue, msg |-> queue.messages[idx]]
      [] gmo.action = "Confirm" ->
           [queue |-> [queue EXCEPT !.messages = RemoveAt(queue.messages, idx)],
            msg |-> queue.messages[idx]]
      [] gmo.action = "Reserve" ->
           LET msg == set_reservation(queue.messages[idx], gmo.reservation)
           IN  [queue |-> [queue EXCEPT !.messages[idx] = msg], msg |-> msg]
      [] gmo.action = "Return" ->
           LET msg == remove_reservation(queue.messages[idx])
           IN  [queue |-> [queue EXCEPT !.messages[idx] = msg], msg |-> msg]

\* faulty variant: confirm returns the message and leaves it in the queue
get_message_impl_AckKeeps(gmo, queue, idx) ==
    CASE gmo.action \in {"Browse", "Confirm"} ->
           [queue |-> queue, msg |-> queue.messages[idx]]
      [] gmo.action = "Get" ->
           [queue |-> [queue EXCEPT !.messages = RemoveAt(queue.messages, idx)],
            msg |-> queue.messages[idx]]
      [] gmo.action = "Reserve" ->
           LET msg == set_reservation(queue.messages[idx], gmo.reservation)
           IN  [queue |-> [queue EXCEPT !.messages[idx] = msg], msg |-> msg]
      [] gmo.action = "Return" ->
           LET msg == remove_reservation(queue.messages[idx])
           IN  [queue |-> [queue EXCEPT !.messages[idx] = msg], msg |-> msg]

\* faulty variant: browse removes the message it returns
get_message_impl_PeekTakes(gmo, queue, idx) ==
    CASE gmo.action \in {"Browse", "Get", "Confirm"} ->
           [queue |-> [queue EXCEPT !.messages = RemoveAt(queue.messages, idx)],
            msg |-> queue.messages[idx]]
      [] gmo.action = "Reserve" ->
           LET msg == set_reservation(queue.messages[idx], gmo.reservation)
           IN  [queue |-> [queue EXCEPT !.messages[idx] = msg], msg |-> msg]
      [] gmo.action = "Return" ->
           LET msg == remove_reservation(queue.messages[idx])
           IN  [queue |-> [queue EXCEPT !.messages[idx] = msg], msg |-> msg]

\* faulty variant: reserve puts the lease on every message of the queue
get_message_impl_ReserveAll(gmo, queue, idx) ==
    CASE gmo.action = "Browse" ->
           [queue |-> queue, msg |-> queue.messages[idx]]
      [] gmo.action \in {"Get", "Confirm"} ->
           [queue |-> [queue EXCEPT !.messages = RemoveAt(queue.messages, idx)],
            msg |-> queue.messages[idx]]
      [] gmo.action = "Reserve" ->
           [queue |-> [queue EXCEPT !.messages =
                          [i \in 1..Len(queue.messages) |->
                              set_reservation(queue.messages[i], gmo.reservation)]],
            msg |-> set_reservation(queue.messages[idx], gmo.reservation)]
      [] gmo.action = "Return" ->
           LET msg == remove_reservation(queue.messages[idx])
           IN  [queue |-> [queue EXCEPT !.messages[idx] = msg], msg |-> msg]

\* faulty variant: reserve applies the expiry of the options to the message
get_message_impl_SetsExpiry(gmo, queue, idx) ==
    CASE gmo.action = "Browse" ->
           [queue |-> queue, msg |-> queue.messages[idx]]
      [] gmo.action \in {"Get", "Confirm"} ->
           [queue |-> [queue EXCEPT !.messages = RemoveAt(queue.messages, idx)],
            msg |-> queue.messages[idx]]
      [] gmo.action = "Reserve" ->
           LET leased == set_reservation(queue.messages[idx], gmo.reservation)
               msg == IF gmo.expiry.some
                      THEN [leased EXCEPT !.expiry = Expire(gmo.expiry.v)] ELSE leased
           IN  [queue |-> [queue EXCEPT !.messages[idx] = msg], msg |-> msg]
      [] gmo.action = "Return" ->
           LET msg == remove_reservation(queue.messages[idx])
           IN  [queue |-> [queue EXCEPT !.messages[idx] = msg], msg |-> msg]

\* faulty variant: return puts the message at the back of the queue
get_message_impl_ReturnRequeues(gmo, queue, idx) ==
    CASE gmo.action = "Browse" ->
           [queue |-> queue, msg |-> queue.messages[idx]]
      [] gmo.action \in {"Get", "Confirm"} ->
           [queue |-> [queue EXCEPT !.messages = RemoveAt(queue.messages, idx)],
            msg |-> queue.messages[idx]]
      [] gmo.action = "Reserve" ->
           LET msg == set_reservation(queue.messages[idx], gmo.reservation)
           IN  [queue |-> [queue EXCEPT !.messages[idx] = msg], msg |-> msg]
      [] gmo.action = "Return" ->
           LET msg == remove_reservation(queue.messages[idx])
           IN  [queue |-> [queue EXCEPT !.messages =
                              Append(RemoveAt(queue.messages, idx), msg)],
                msg |-> msg]

\* Memory::get_message_impl: the queue afterwards and the message returned
get_message_impl(gmo, queue, idx) ==
    CASE gmo.action = "Browse" ->
           [queue |-> queue, msg |-> queue.messages[idx]]
      [] gmo.action = "Get" ->
           [queue |-> [queue EXCEPT !.messages = RemoveAt(queue.messages, idx)],
            msg |-> queue.messages[idx]]
      [] gmo.action = "Confirm" ->
           [queue |-> [queue EXCEPT !.messages = RemoveAt(queue.messages, idx)],
            msg |-> queue.messages[idx]]
      [] gmo.action = "Reserve" ->
           LET msg == set_reservation(queue.messages[idx], gmo.reservation)
           IN  [queue |-> [queue EXCEPT !.messages[idx] = msg], msg |-> msg]
      [] gmo.action = "Return" ->
           LET msg == remove_reservation(queue.messages[idx])
           IN  [queue |-> [queue EXCEPT !.messages[idx] = msg], msg |-> msg]

\* faulty variant: the cursor is the length of the queue after the push
add_message_Len(queue, message) ==
    LET msg == set_cursor(message, Len(queue.messages) + 1)
    IN  [queue |-> [messages |-> Append(queue.messages, msg),
                    max_serial |-> queue.max_serial + 1],
         msg |-> msg]

\* faulty variant: the cursor is one more than the highest cursor still stored
add_message_Top(queue, message) ==
    LET top == IF queue.messages = <<>> THEN 0
               ELSE queue.messages[Len(queue.messages)].cursor
        msg == set_cursor(message, top + 1)
    IN  [queue |-> [messages |-> Append(queue.messages, msg),
                    max_serial |-> top + 1],
         msg |-> msg]

\* Queue::add_message
add_message(queue, message) ==
    LET msg == set_cursor(message, queue.max_serial + 1)
    IN  [queue |-> [messages |-> Append(queue.messages, msg),
                    max_serial |-> queue.max_serial + 1],
         msg |-> msg]

\* Queue::default()
QueueDefault == [messages |-> <<>>, max_serial |-> 0]

\* ---- requests -----------------------------------------------------------------
\* The HashMap<String, String> holding exactly the given keys (Absent = no key)
MkParams(action, queue_name, mid, cid, secs, after) ==
    LET val == [k \in {"queue_name", "action", "mid", "cid", "reservation_seconds", "after"} |->
                  CASE k = "queue_name" -> queue_name
                    [] k = "action" -> action
                    [] k = "mid" -> mid
                    [] k = "cid" -> cid
                    [] k = "reservation_seconds" -> secs
                    [] k = "after" -> after]
        keys == {k \in DOMAIN val : val[k] # Absent}
    IN  [k \in keys |-> val[k]]

Unfiltered(q) ==
    {MkParams(a, q, Absent, Absent, Absent, Absent) : a \in {"browse", "get"}}
      \cup {MkParams("reserve", q, Absent, Absent, s, Absent) : s \in {"1", "2"}}

ById(q, i) ==
    {MkParams(a, q, i, Absent, Absent, Absent) : a \in {"browse", "get", "confirm", "return"}}
      \cup {MkParams("reserve", q, i, Absent, "1", Absent)}

\* CreateMessageRequest shapes: content, cid, expiry as seconds from now
Plain == [content |-> "a", cid |-> None, secs |-> None]
Expiring == [content |-> "c", cid |-> None, secs |-> Some(1)]
Tagged == [content |-> "b", cid |-> Some("c1"), secs |-> None]
Zero == [content |-> "z", cid |-> None, secs |-> Some(0)]

\* Inputs of Spec: two callers create on two queues while others select
ConcRequests ==
    {MkParams("get", q, Absent, Absent, Absent, Absent) : q \in QueueNames}
      \cup {MkParams("reserve", "q1", Absent, Absent, "1", Absent),
            MkParams("confirm", "q1", UuidOf[1], Absent, Absent, Absent),
            MkParams("query", "q2", Absent, Absent, Absent, Absent)}
ConcShapes == {Plain, Expiring}

\* Inputs of SpecSelect: every select action, unfiltered and by id, on one queue
SelRequests == Unfiltered("q1") \cup UNION {ById("q1", UuidOf[n]) : n \in 1..MaxMsgs}
SelShapes == {Plain, Expiring}

\* Inputs of SpecQueues: one caller creates on either queue and every select
\* action is tried on q2, before and after its first creation
QueRequests == Unfiltered("q2") \cup ById("q2", UuidOf[1])
QueShapes == {Plain, Expiring}

\* Inputs of SpecOrder: one caller puts up to MaxOrder messages on q1 and
\* removes from the front and from the middle
OrdRequests ==
    {MkParams("get", "q1", Absent, Absent, Absent, Absent),
     MkParams("get", "q1", UuidOf[2], Absent, Absent, Absent),
     MkParams("reserve", "q1", Absent, Absent, "1", Absent),
     MkParams("confirm", "q1", UuidOf[1], Absent, Absent, Absent)}
OrdShapes == {Plain, Expiring}

\* Inputs of SpecParse: parameter maps with every key absent, well-formed or
\* malformed ("-" is no key)
RawQueueNames == {Absent, "q1", " q1", " "}
RawActions == {Absent, "browse", "get", "reserve", "confirm", "return", "query", "Browse", "peek"}
RawMids == {Absent, "u1", "zz"}
RawCids == {Absent, "c1", "zz"}
RawInts == {Absent, "1", "x"}
ParamKeys == {"queue_name", "action", "mid", "cid", "reservation_seconds", "expiry_seconds", "after"}

\* the HashMap<String, String> holding the keys of val whose value is not Absent
MkMap(val) == [k \in {x \in ParamKeys : val[x] # Absent} |-> val[k]]

ParseMaps ==
    {MkMap(val) : val \in [queue_name : RawQueueNames, action : RawActions, mid : RawMids,
                           cid : RawCids, reservation_seconds : RawInts,
                           expiry_seconds : RawInts, after : RawInts]}

\* Inputs of SpecFields: selects that carry expiry_seconds, on messages created
\* with a cid and without expiry, or with expiry and without cid
FldRequests ==
    {MkMap([queue_name |-> "q1", action |-> a, mid |-> Absent, cid |-> Absent,
            reservation_seconds |-> (IF a = "reserve" THEN "1" ELSE Absent),
            expiry_seconds |-> e, after |-> Absent]) :
        a \in {"browse", "get", "reserve"}, e \in {Absent, "2"}}
      \cup {MkMap([queue_name |-> "q1", action |-> "return", mid |-> UuidOf[1], cid |-> Absent,
                   reservation_seconds |-> Absent, expiry_seconds |-> "2", after |-> Absent])}
FldShapes == {Tagged, Expiring}

\* Inputs of SpecFilter: browse, get and reserve with every combination of the
\* mid, cid and after filters, on messages created with and without a cid
FltRequests ==
    {MkMap([queue_name |-> "q1", action |-> a, mid |-> i, cid |-> c,
            reservation_seconds |-> (IF a = "reserve" THEN "1" ELSE Absent),
            expiry_seconds |-> Absent, after |-> t]) :
        a \in {"browse", "get", "reserve"}, i \in {Absent, UuidOf[2]},
        c \in {Absent, "c1"}, t \in {Absent, "1"}}
FltShapes == {Plain, Tagged}

\* Inputs of SpecAck: an unfiltered reserve, then confirm and return by mid with
\* and without a cid and an after that the leased message does not pass
AckRequests ==
    {MkMap([queue_name |-> "q1", action |-> a, mid |-> UuidOf[1], cid |-> c,
            reservation_seconds |-> Absent, expiry_seconds |-> Absent, after |-> t]) :
        a \in {"confirm", "return"}, c \in {Absent, "c1"}, t \in {Absent, "1"}}
      \cup {MkParams("reserve", "q1", Absent, Absent, "1", Absent)}
AckShapes == {Plain, Tagged}

\* format!("{}", cursor): the decimal string a caller puts under after
UsizeToString(n) ==
    CASE n = 0 -> "0"
      [] n = 1 -> "1"
      [] n = 2 -> "2"
      [] n = 3 -> "3"
      [] n = 4 -> "4"

\* the browse of q that continues after the given cursor string (Absent: from
\* the front)
BrowseAfter(q, after) ==
    MkMap([queue_name |-> q, action |-> "browse", mid |-> Absent, cid |-> Absent,
           reservation_seconds |-> Absent, expiry_seconds |-> Absent, after |-> after])

\* Inputs of SpecPage: a caller pages through q1 with browse and after, while
\* reserves and expiries make some of up to MaxOrder messages ineligible
PagRequests ==
    {BrowseAfter("q1", t) : t \in {Absent} \cup {UsizeToString(n) : n \in 1..MaxOrder}}
      \cup {MkParams("reserve", "q1", Absent, Absent, secs, Absent) : secs \in {"1", "2"}}
PagShapes == {Plain, Expiring}

\* Inputs of SpecZero: messages created with an expiry of 0 s or without
\* expiry, and the unfiltered selects on their queue
ZeroRequests == Unfiltered("q1")
ZeroShapes == {Plain, Zero}

\* Inputs of SpecDrain: a consumer that keeps taking from q1 without filter,
\* and callers that reserve for 1 s as long as the clock has not reached MaxClock
DrainTake == MkParams("get", "q1", Absent, Absent, Absent, Absent)
DrainReserve == MkParams("reserve", "q1", Absent, Absent, "1", Absent)
DrainShapes == {Plain, Expiring}

\* Inputs of SpecNames: raw queue names with and without surrounding blanks,
\* and one of blanks only; a create puts the raw name it was called with into
\* the content of its message
RawNames == {"q1", " q1", "q1 ", " q2 ", " "}
NameRequests == {MkParams("get", raw, Absent, Absent, Absent, Absent) : raw \in RawNames}

\* GetMessageOptions::try_from of every request of the model at every instant
AllRequests ==
    ConcRequests \cup SelRequests \cup QueRequests \cup OrdRequests \cup FldRequests
      \cup FltRequests \cup AckRequests \cup PagRequests \cup ZeroRequests
      \cup {DrainTake, DrainReserve} \cup NameRequests
Built == [now \in 0..MaxClock |-> [m \in AllRequests |-> try_from(m, now)]]

\* ---- results ------------------------------------------------------------------
Ok(msg) == [ok |-> TRUE, msg |-> msg]
NoMessage == [ok |-> FALSE, err |-> "NoMessage"]
NoQueue == [ok |-> FALSE, err |-> "NoQueue"]
\* lock().unwrap() on a poisoned mutex, unreachable!(): the call does not return
Panic == [ok |-> FALSE, err |-> "panic"]

NoReq == [queue_name |-> Absent]

\* ---- state ----------------------------------------------------------------------
VARIABLES
    clock,      \* Instant::now()
    queues,     \* Memory.queues: QueueName -> Queue, for the names present
    poisoned,   \* the Mutex is poisoned (a holder panicked)
    uuids,      \* number of Uuid::new_v4() draws so far
    pc,         \* per caller: "idle", or "insert" between the two lock sections of create_message
    creq,       \* per caller: the CreateMessageRequest of its create_message in flight
    last,       \* the most recent lock section: its call, what it returned and (get_message) when it ran
    promised,   \* history: per message id, the instant (time of the successful reserve + its seconds) up to
                \* which its latest lease was asked to last; None once return is called on the id
    returned,   \* history: per message id, the get/confirm calls that returned it, in order
    made        \* history: per message id, the queue name and content its create_message was given,
                \* whether it was given an expiry, and the cursor of the message it returned

vars == <<clock, queues, poisoned, uuids, pc, creq, last, promised, returned, made>>

Init ==
    /\ clock = 0
    /\ queues = <<>>
    /\ poisoned = FALSE
    /\ uuids = 0
    /\ pc = [p \in Procs |-> "idle"]
    /\ creq = [p \in Procs |-> NoReq]
    /\ last = [op |-> "new"]
    /\ promised = [u \in MsgUuids |-> None]
    /\ returned = [u \in MsgUuids |-> <<>>]
    /\ made = [u \in MsgUuids |-> None]

\* HashMap: insert or overwrite one entry
MapPut(f, k, v) == [x \in DOMAIN f \cup {k} |-> IF x = k THEN v ELSE f[x]]

\* the mock / system clock advances
Tick ==
    /\ clock < MaxClock
    /\ clock' = clock + 1
    /\ UNCHANGED <<queues, poisoned, uuids, pc, creq, last, promised, returned, made>>

\* history bookkeeping of a get_message call that returned res
PromisedAfter(m, gmo, res) ==
    [u \in DOMAIN promised |->
        IF res.ok /\ res.msg.mid = u /\ gmo.action = "Reserve"
        THEN Some(clock + ParseInt(m["reservation_seconds"]).v)
        ELSE IF gmo.action = "Return" /\ gmo.mid = Some(u) THEN None
        ELSE promised[u]]

ReturnedAfter(gmo, res) ==
    [u \in DOMAIN returned |->
        IF res.ok /\ res.msg.mid = u /\ gmo.action \in {"Get", "Confirm"}
        THEN Append(returned[u], gmo.action) ELSE returned[u]]

\* faulty variant: the queue is looked up with entry().or_default(), so a
\* select on an absent name leaves an empty queue behind
get_message_Entry(m, gmo) ==
    /\ (  IF poisoned
           THEN /\ last' = [op |-> "get_message", m |-> m, at |-> clock, res |-> Panic]
                /\ UNCHANGED <<queues, poisoned, promised, returned>>
           ELSE IF gmo.queue_name \notin DOMAIN queues
           THEN /\ last' = [op |-> "get_message", m |-> m, at |-> clock, res |-> NoMessage]
                /\ promised' = PromisedAfter(m, gmo, NoMessage)
                /\ queues' = MapPut(queues, gmo.queue_name, [messages |-> <<>>, max_serial |-> 0])
                /\ UNCHANGED <<poisoned, returned>>
           ELSE IF gmo.action = "Query" /\ queues[gmo.queue_name].messages # <<>>
           THEN /\ last' = [op |-> "get_message", m |-> m, at |-> clock, res |-> Panic]
                /\ poisoned' = TRUE
                /\ UNCHANGED <<queues, promised, returned>>
           ELSE LET queue == queues[gmo.queue_name]
                    idx == position(gmo, queue.messages, clock)
                IN  IF idx = 0
                    THEN /\ last' = [op |-> "get_message", m |-> m, at |-> clock, res |-> NoMessage]
                         /\ promised' = PromisedAfter(m, gmo, NoMessage)
                         /\ UNCHANGED <<queues, poisoned, returned>>
                    ELSE LET r == get_message_impl(gmo, queue, idx)
                         IN  /\ queues' = [queues EXCEPT ![gmo.queue_name] = r.queue]
                             /\ last' = [op |-> "get_message", m |-> m, at |-> clock, res |-> Ok(r.msg)]
                             /\ promised' = PromisedAfter(m, gmo, Ok(r.msg))
                             /\ returned' = ReturnedAfter(gmo, Ok(r.msg))
                             /\ UNCHANGED poisoned )
    /\ UNCHANGED <<clock, uuids, pc, creq, made>>

\* Memory::get_message applied to gmo, the options built from the parameters m
get_message(m, gmo) ==
    /\ (  IF poisoned
           THEN /\ last' = [op |-> "get_message", m |-> m, at |-> clock, res |-> Panic]
                /\ UNCHANGED <<queues, poisoned, promised, returned>>
           ELSE IF gmo.queue_name \notin DOMAIN queues
           THEN /\ last' = [op |-> "get_message", m |-> m, at |-> clock, res |-> NoMessage]
                /\ promised' = PromisedAfter(m, gmo, NoMessage)
                /\ UNCHANGED <<queues, poisoned, returned>>
           ELSE IF gmo.action = "Query" /\ queues[gmo.queue_name].messages # <<>>
           THEN /\ last' = [op |-> "get_message", m |-> m, at |-> clock, res |-> Panic]
                /\ poisoned' = TRUE
                /\ UNCHANGED <<queues, promised, returned>>
           ELSE LET queue == queues[gmo.queue_name]
                    idx == position(gmo, queue.messages, clock)
                IN  IF idx = 0
                    THEN /\ last' = [op |-> "get_message", m |-> m, at |-> clock, res |-> NoMessage]
                         /\ promised' = PromisedAfter(m, gmo, NoMessage)
                         /\ UNCHANGED <<queues, poisoned, returned>>
                    ELSE LET r == get_message_impl(gmo, queue, idx)
                         IN  /\ queues' = [queues EXCEPT ![gmo.queue_name] = r.queue]
                             /\ last' = [op |-> "get_message", m |-> m, at |-> clock, res |-> Ok(r.msg)]
                             /\ promised' = PromisedAfter(m, gmo, Ok(r.msg))
                             /\ returned' = ReturnedAfter(gmo, Ok(r.msg))
                             /\ UNCHANGED poisoned )
    /\ UNCHANGED <<clock, uuids, pc, creq, made>>

\* faulty variant: the sweep spares the expired messages that carry a lease
PurgedQueues_SpareLeased ==
    [q \in DOMAIN queues |->
        [queues[q] EXCEPT !.messages =
            SelectSeq(queues[q].messages,
                      LAMBDA m : ~is_expired(m, clock) \/ m.reservation.tag = "Until")]]

\* Memory::purge_expired_messages: every queue keeps its unexpired messages
PurgedQueues ==
    [q \in DOMAIN queues |->
        [queues[q] EXCEPT !.messages = Retain(queues[q].messages, clock)]]

RECURSIVE SumLen(_, _)
SumLen(qs, names) ==
    IF names = {} THEN 0
    ELSE LET q == CHOOSE x \in names : TRUE
         IN  Len(qs[q].messages) + SumLen(qs, names \ {q})

\* faulty variant: every draw gives the id of the first
new_v4_Repeat(n) == UuidOf[1]

\* Uuid::new_v4(), the n-th draw of the run
new_v4(n) == UuidOf[n]

\* Memory::create_message, first lock section: the caller has built its
\* CreateMessageRequest (expiry = now + secs) and purge_expired_messages runs
create_message_purge(p, queue_name, content, cid, expiry) ==
    /\ pc[p] = "idle"
    /\ uuids + Cardinality({x \in Procs : pc[x] = "insert"}) < Cardinality(DOMAIN made)
    /\ IF poisoned
       THEN /\ last' = [op |-> "create_message", res |-> Panic]
            /\ UNCHANGED <<queues, pc, creq>>
       ELSE /\ queues' = PurgedQueues
            /\ last' = [op |-> "purge_expired_messages",
                        res |-> SumLen(queues, DOMAIN queues) - SumLen(PurgedQueues, DOMAIN queues)]
            /\ pc' = [pc EXCEPT ![p] = "insert"]
            /\ creq' = [creq EXCEPT ![p] = [queue_name |-> queue_name, content |-> content,
                                            cid |-> cid, expiry |-> expiry]]
    /\ UNCHANGED <<clock, poisoned, uuids, promised, returned, made>>

\* faulty variant: the sweep runs after the insertion instead of before it
create_message_insert_SweepAfter(p) ==
    /\ pc[p] = "insert"
    /\ pc' = [pc EXCEPT ![p] = "idle"]
    /\ creq' = [creq EXCEPT ![p] = NoReq]
    /\ uuids' = uuids + 1
    /\ IF poisoned
       THEN /\ last' = [op |-> "create_message", res |-> Panic]
            /\ UNCHANGED <<queues, made>>
       ELSE LET req == creq[p]
                message == MessageNew(new_v4(uuids + 1), req.cid, req.content, req.expiry)
                entry == IF req.queue_name \in DOMAIN queues THEN queues[req.queue_name]
                         ELSE QueueDefault
                r == add_message(entry, message)
                put == MapPut(queues, req.queue_name, r.queue)
            IN  /\ queues' = [q \in DOMAIN put |->
                                 [put[q] EXCEPT !.messages = Retain(put[q].messages, clock)]]
                /\ last' = [op |-> "create_message", req |-> req, res |-> Ok(r.msg)]
                /\ made' = [made EXCEPT ![r.msg.mid] =
                              Some([queue_name |-> req.queue_name, content |-> req.content,
                                    expiring |-> req.expiry.some, cursor |-> r.msg.cursor])]
    /\ UNCHANGED <<clock, poisoned, promised, returned>>

\* Memory::create_message, second lock section: new id, entry().or_default(), add_message
create_message_insert(p) ==
    /\ pc[p] = "insert"
    /\ pc' = [pc EXCEPT ![p] = "idle"]
    /\ creq' = [creq EXCEPT ![p] = NoReq]
    /\ uuids' = uuids + 1
    /\ IF poisoned
       THEN /\ last' = [op |-> "create_message", res |-> Panic]
            /\ UNCHANGED <<queues, made>>
       ELSE LET req == creq[p]
                message == MessageNew(new_v4(uuids + 1), req.cid, req.content, req.expiry)
                entry == IF req.queue_name \in DOMAIN queues THEN queues[req.queue_name]
                         ELSE QueueDefault
                r == add_message(entry, message)
            IN  /\ queues' = MapPut(queues, req.queue_name, r.queue)
                /\ last' = [op |-> "create_message", req |-> req, res |-> Ok(r.msg)]
                /\ made' = [made EXCEPT ![r.msg.mid] =
                              Some([queue_name |-> req.queue_name, content |-> req.content,
                                    expiring |-> req.expiry.some, cursor |-> r.msg.cursor])]
    /\ UNCHANGED <<clock, poisoned, promised, returned>>

\* faulty variant: the depth leaves out the messages whose expiry has passed
depth_Live(qs, queue_name) == Len(Retain(qs[queue_name].messages, clock))

\* queue.messages.len(), the depth get_info reports
depth(qs, queue_name) == Len(qs[queue_name].messages)

\* faulty variant: a queue that is not in the store is reported with depth 0
get_info_Zero(m) ==
    /\ try_from(m, clock).ok
    /\ LET gmo == try_from(m, clock).v
       IN  last' = [op |-> "get_info", m |-> m,
                    res |-> IF poisoned THEN Panic
                            ELSE [ok |-> TRUE, queue_name |-> gmo.queue_name,
                                  depth |-> IF gmo.queue_name \in DOMAIN queues
                                            THEN depth(queues, gmo.queue_name) ELSE 0]]
    /\ UNCHANGED <<clock, queues, poisoned, uuids, pc, creq, promised, returned, made>>

\* Memory::get_info
get_info(m) ==
    /\ try_from(m, clock).ok
    /\ LET gmo == try_from(m, clock).v
       IN  last' = [op |-> "get_info", m |-> m,
                    res |-> IF poisoned THEN Panic
                            ELSE IF gmo.queue_name \notin DOMAIN queues THEN NoQueue
                            ELSE [ok |-> TRUE, queue_name |-> gmo.queue_name,
                                  depth |-> depth(queues, gmo.queue_name)]]
    /\ UNCHANGED <<clock, queues, poisoned, uuids, pc, creq, promised, returned, made>>

\* faulty variant: the queues without messages are left out of the list
queue_list_NonEmpty ==
    /\ last' = [op |-> "queue_list",
                res |-> IF poisoned THEN Panic
                        ELSE [ok |-> TRUE,
                              names |-> {q \in DOMAIN queues : queues[q].messages # <<>>}]]
    /\ UNCHANGED <<clock, queues, poisoned, uuids, pc, creq, promised, returned, made>>

\* Memory::queue_list (the Vec is in HashMap order; its set of names is kept)
queue_list ==
    /\ last' = [op |-> "queue_list",
                res |-> IF poisoned THEN Panic ELSE [ok |-> TRUE, names |-> DOMAIN queues]]
    /\ UNCHANGED <<clock, queues, poisoned, uuids, pc, creq, promised, returned, made>>

\* a caller builds the options from m when the clock reads built (now, or
\* earlier: only options carrying an instant depend on it) and applies them now
GetMessageOf(R) ==
    \E m \in R :
        \E built \in (IF "reservation_seconds" \in DOMAIN m THEN 0..clock ELSE {clock}) :
            Built[built][m].ok /\ get_message(m, Built[built][m].v)

CreatePurgeOf(P, Q, S) ==
    \E p \in P, q \in Q, c \in S :
        create_message_purge(p, q, c.content, c.cid,
                             IF c.secs.some THEN Some(clock + c.secs.v) ELSE None)

CreateInsert == \E p \in Procs : create_message_insert(p)

GetInfo == \E q \in QueueNames : get_info(MkParams("query", q, Absent, Absent, Absent, Absent))

GetMessageConc == GetMessageOf(ConcRequests)
CreatePurgeConc == CreatePurgeOf(Procs, QueueNames, ConcShapes)

Next == Tick \/ GetMessageConc \/ CreatePurgeConc \/ CreateInsert \/ GetInfo \/ queue_list

Spec == Init /\ [][Next]_vars

GetMessageSel == GetMessageOf(SelRequests)
CreatePurgeSel == CreatePurgeOf({"p1"}, {"q1"}, SelShapes)

NextSelect == Tick \/ GetMessageSel \/ CreatePurgeSel \/ CreateInsert

SpecSelect == Init /\ [][NextSelect]_vars

GetMessageQue == GetMessageOf(QueRequests)
CreatePurgeQue == CreatePurgeOf({"p1"}, QueueNames, QueShapes)

NextQueues == Tick \/ GetMessageQue \/ CreatePurgeQue \/ CreateInsert \/ GetInfo \/ queue_list

SpecQueues == Init /\ [][NextQueues]_vars

\* the store after construction, with ids for MaxOrder creations
InitOrder ==
    /\ clock = 0
    /\ queues = <<>>
    /\ poisoned = FALSE
    /\ uuids = 0
    /\ pc = [p \in Procs |-> "idle"]
    /\ creq = [p \in Procs |-> NoReq]
    /\ last = [op |-> "new"]
    /\ promised = [u \in OrdUuids |-> None]
    /\ returned = [u \in OrdUuids |-> <<>>]
    /\ made = [u \in OrdUuids |-> None]

GetMessageOrd == GetMessageOf(OrdRequests)
CreatePurgeOrd == CreatePurgeOf({"p1"}, {"q1"}, OrdShapes)

NextOrder == Tick \/ GetMessageOrd \/ CreatePurgeOrd \/ CreateInsert

SpecOrder == InitOrder /\ [][NextOrder]_vars

GetMessageFld == GetMessageOf(FldRequests)
CreatePurgeFld == CreatePurgeOf({"p1"}, {"q1"}, FldShapes)

NextFields == Tick \/ GetMessageFld \/ CreatePurgeFld \/ CreateInsert

SpecFields == Init /\ [][NextFields]_vars

GetMessageFlt == GetMessageOf(FltRequests)
CreatePurgeFlt == CreatePurgeOf({"p1"}, {"q1"}, FltShapes)

NextFilter == Tick \/ GetMessageFlt \/ CreatePurgeFlt \/ CreateInsert

SpecFilter == Init /\ [][NextFilter]_vars

GetMessageAck == GetMessageOf(AckRequests)
CreatePurgeAck == CreatePurgeOf({"p1"}, {"q1"}, AckShapes)

NextAck == Tick \/ GetMessageAck \/ CreatePurgeAck \/ CreateInsert

SpecAck == Init /\ [][NextAck]_vars

GetMessagePag == GetMessageOf(PagRequests)
CreatePurgePag == CreatePurgeOf({"p1"}, {"q1"}, PagShapes)

NextPage == Tick \/ GetMessagePag \/ CreatePurgePag \/ CreateInsert

SpecPage == InitOrder /\ [][NextPage]_vars

GetMessageZero == GetMessageOf(ZeroRequests)
CreatePurgeZero == CreatePurgeOf({"p1"}, {"q1"}, ZeroShapes)

NextZero == Tick \/ GetMessageZero \/ CreatePurgeZero \/ CreateInsert \/ GetInfo

SpecZero == Init /\ [][NextZero]_vars

\* the consumer's unfiltered get on q1
TakeDrain == GetMessageOf({DrainTake})
\* reserve requests, the last of them before the clock reaches MaxClock
ReserveDrain == clock < MaxClock /\ GetMessageOf({DrainReserve})
CreatePurgeDrain == CreatePurgeOf({"p1"}, {"q1"}, DrainShapes)

NextDrain == Tick \/ TakeDrain \/ ReserveDrain \/ CreatePurgeDrain \/ CreateInsert

\* the clock keeps advancing and the consumer keeps issuing its get
SpecDrain == Init /\ [][NextDrain]_vars /\ WF_vars(Tick) /\ WF_vars(TakeDrain)

GetMessageRaw == GetMessageOf(NameRequests)

\* a caller turns a raw name into a QueueName and calls create_message with it
CreatePurgeRaw ==
    \E raw \in RawNames :
        /\ QueueNameTryFrom(raw).ok
        /\ create_message_purge("p1", QueueNameTryFrom(raw).v, raw, None, None)

\* QueueName::try_from fails with QueueNameEmptyError: the caller has no
\* QueueName to call the store with
RejectRaw ==
    \E raw \in RawNames :
        /\ ~QueueNameTryFrom(raw).ok
        /\ last' = [op |-> "QueueName::try_from", raw |-> raw,
                    res |-> [ok |-> FALSE, err |-> "QueueNameEmptyError"]]
        /\ UNCHANGED <<clock, queues, poisoned, uuids, pc, creq, promised, returned, made>>

NextNames == Tick \/ GetMessageRaw \/ CreatePurgeRaw \/ RejectRaw \/ CreateInsert

SpecNames == Init /\ [][NextNames]_vars

\* a caller holds a parameter map and has not yet built the options from it
InitParse ==
    /\ clock = 0
    /\ queues = <<>>
    /\ poisoned = FALSE
    /\ uuids = 0
    /\ pc = [p \in Procs |-> "idle"]
    /\ creq = [p \in Procs |-> NoReq]
    /\ last \in {[op |-> "params", m |-> m] : m \in ParseMaps}
    /\ promised = [u \in MsgUuids |-> None]
    /\ returned = [u \in MsgUuids |-> <<>>]
    /\ made = [u \in MsgUuids |-> None]

\* params.try_into(): the options are built from the map now; the store is not involved
Parse ==
    /\ last.op = "params"
    /\ last' = [op |-> "try_from", m |-> last.m, at |-> clock, res |-> try_from(last.m, clock)]
    /\ UNCHANGED <<clock, queues, poisoned, uuids, pc, creq, promised, returned, made>>

NextParse == Tick \/ Parse

SpecParse == InitParse /\ [][NextParse]_vars

\* ---- vocabulary of the properties ---------------------------------------------
\* this step is one get_message call; last' holds its parameters and its result
SelectStep ==
    /\ last'.op = "get_message"
    /\ \E built \in 0..clock : Built[built][last'.m].ok /\ get_message(last'.m, Built[built][last'.m].v)

Filters(m) == DOMAIN m \cap {"mid", "cid", "after"}
IsScan(m) == m["action"] \in {"browse", "get", "reserve"}

\* the lease and expiry conditions as the specification words them
ActiveLease(msg, now) == msg.reservation.tag = "Until" /\ now < msg.reservation.inst
PastExpiry(msg, now) == msg.expiry.tag = "Expire" /\ msg.expiry.inst <= now

MessagesOf(qs, q) == IF q \in DOMAIN qs THEN qs[q].messages ELSE <<>>
StoredIn(qs, q, u) == \E i \in 1..Len(MessagesOf(qs, q)) : MessagesOf(qs, q)[i].mid = u
MsgIn(qs, q, u) ==
    MessagesOf(qs, q)[CHOOSE i \in 1..Len(MessagesOf(qs, q)) : MessagesOf(qs, q)[i].mid = u]

\* this step is the second lock section of one create_message call; last' holds
\* its request and its result
CreateStep ==
    /\ last'.op = "create_message"
    /\ \E p \in Procs : create_message_insert(p)

\* this step is the first lock section of one create_message call, the run of
\* purge_expired_messages; last' holds the number of messages it removed
PurgeStep ==
    /\ last'.op = "purge_expired_messages"
    /\ \E p \in Procs : pc[p] = "idle" /\ pc'[p] = "insert"

\* this step is one get_info call; last' holds its parameters and its result
InfoStep ==
    /\ last'.op = "get_info"
    /\ get_info(last'.m)

\* this step is one queue_list call; last' holds its result
ListStep ==
    /\ last'.op = "queue_list"
    /\ queue_list

\* the ids of the messages that completed create_message calls put on queue q
MadeOn(q) == {u \in MsgUuids : made[u].some /\ made[u].v.queue_name = q}

\* the places of the store: queue name and index of every stored message
Slots(qs) == {s \in (DOMAIN qs) \X (1..MaxMsgs) : s[2] <= Len(qs[s[1]].messages)}

\* the cursors of seq go strictly up
Ascending(seq) == \A i \in 1..(Len(seq) - 1) : seq[i].cursor < seq[i + 1].cursor

\* new is old with some elements deleted: the kept ones stand in their old order
Filtered(old, new) ==
    new = SelectSeq(old, LAMBDA x : \E i \in 1..Len(new) : new[i] = x)

\* the messages of seq other than the one with id u, in their order
Others(seq, u) == SelectSeq(seq, LAMBDA x : x.mid # u)

\* msg passes the filters the parameter map m carries
PassesFilters(m, msg) ==
    /\ "mid" \in DOMAIN m => msg.mid = m["mid"]
    /\ "cid" \in DOMAIN m => msg.cid = Some(m["cid"])
    /\ "after" \in DOMAIN m => msg.cursor > ParseInt(m["after"]).v

\* the messages a caller gets at instant now from queue q (in state queue) by
\* browsing after the given cursor string and then after the cursor of each
\* message returned, until a browse finds no message; at most fuel browses
\* are followed, and a further match is recorded as "more"
RECURSIVE Pages(_, _, _, _, _)
Pages(queue, q, after, now, fuel) ==
    LET gmo == try_from(BrowseAfter(q, after), now).v
        idx == position(gmo, queue.messages, now)
    IN  IF idx = 0 THEN <<>>
        ELSE IF fuel = 0 THEN <<"more">>
        ELSE LET r == get_message_impl(gmo, queue, idx)
             IN  <<r.msg>> \o Pages(r.queue, q, UsizeToString(r.msg.cursor), now, fuel - 1)

\* the message with id u was created by a request whose expiry was 0 s
BornExpired(u) == made[u].some /\ made[u].v.content = Zero.content

\* the raw queue names of the model without their leading and trailing blanks
Normal(raw) ==
    CASE raw \in {"q1", " q1", "q1 "} -> "q1"
      [] raw = " q2 " -> "q2"
      [] raw = " " -> ""

\* the texts by which an error names a field of the parameter map (the id of a
\* message is the key mid; the error of needs_mid calls it id)
NamesOf(k) == IF k = "mid" THEN {"mid", "id"} ELSE {k}

\* the value at key k of the map parses
FieldParses(m, k) ==
    CASE k = "queue_name" -> QueueNameTryFrom(m[k]).ok
      [] k = "action" -> ActionTryFrom(m[k]).ok
      [] k \in {"mid", "cid"} -> UuidTryParse(m[k]).ok
      [] OTHER -> ParseInt(m[k]).ok

\* queue_name and action are present and every key present parses
WellFormed(m) ==
    /\ {"queue_name", "action"} \subseteq DOMAIN m
    /\ \A k \in DOMAIN m : FieldParses(m, k)

\* ---- C1 -------------------------------------------------------------------------
\* C1: a browse, get or reserve without id, cid or after filter returns the
\* message with the lowest cursor among the messages of its queue that are neither
\* leased nor expired at that moment, and fails with NoMessage exactly when the
\* queue holds no such message.
C1_FifoUnfiltered ==
    [][(SelectStep /\ IsScan(last'.m) /\ Filters(last'.m) = {} /\ last'.res # Panic) =>
        LET msgs == MessagesOf(queues, last'.m["queue_name"])
            free == {i \in 1..Len(msgs) :
                       ~ActiveLease(msgs[i], clock) /\ ~PastExpiry(msgs[i], clock)}
        IN  IF free = {} THEN last'.res = NoMessage
            ELSE /\ last'.res.ok
                 /\ \E i \in free :
                      /\ last'.res.msg.mid = msgs[i].mid
                      /\ \A j \in free : msgs[i].cursor <= msgs[j].cursor
      ]_vars

\* an unfiltered select returned a message that is not the first of its queue
C1_Witness ==
    /\ last.op = "get_message"
    /\ IsScan(last.m) /\ Filters(last.m) = {}
    /\ last.res.ok
    /\ \E i \in 1..Len(MessagesOf(queues, "q1")) :
         MessagesOf(queues, "q1")[i].cursor < last.res.msg.cursor

\* ---- C2 -------------------------------------------------------------------------
\* C2: from a successful reserve with reservation_seconds = S until S seconds
\* have passed or return is called on the id, no browse, get or reserve returns
\* that message.
C2_LeaseExclusive ==
    [][(SelectStep /\ IsScan(last'.m) /\ last'.res.ok) =>
        ~(promised[last'.res.msg.mid].some /\ clock < promised[last'.res.msg.mid].v)
      ]_vars

\* ---- C3 -------------------------------------------------------------------------
\* C3: a message is returned by at most one successful get or confirm, it is no
\* longer stored once returned, and a get never returns a message whose lease is
\* active.
C3_AtMostOneRemoval ==
    /\ \A u \in MsgUuids :
         /\ Len(returned[u]) <= 1
         /\ returned[u] # <<>> => \A q \in DOMAIN queues : ~StoredIn(queues, q, u)
    /\ (last.op = "get_message" /\ last.m["action"] = "get" /\ last.res.ok)
         => ~ActiveLease(last.res.msg, clock)

\* a get failed on a queue from which a get had taken a message before
C3_Witness ==
    /\ last.op = "get_message" /\ last.m["action"] = "get"
    /\ last.res = NoMessage
    /\ \E u \in MsgUuids : returned[u] = <<"Get">>

\* ---- C4 -------------------------------------------------------------------------
\* C4: create_message is one atomic step: between its sweep and its insertion
\* no other caller's operation changes the store.
C4_CreateAtomic ==
    [][\A p \in Procs : (pc[p] = "insert" /\ pc'[p] = "insert") => queues' = queues]_vars

\* ---- C5 -------------------------------------------------------------------------
\* C5: a successful reserve with reservation_seconds = S leaves the stored
\* message leased until (the clock when the select is applied) + S.
C5_LeaseFromApply ==
    [][(SelectStep /\ last'.m["action"] = "reserve" /\ last'.res.ok) =>
        LET until == Until(clock + ParseInt(last'.m["reservation_seconds"]).v)
        IN  /\ last'.res.msg.reservation = until
            /\ MsgIn(queues', last'.m["queue_name"], last'.res.msg.mid).reservation = until
      ]_vars

\* ---- C6 -------------------------------------------------------------------------
\* C6: once the clock has reached the expiry instant of a message, no browse,
\* get or reserve returns it, and one that names it by id fails with NoMessage,
\* whatever its lease.
C6_ExpiryEnforced ==
    [][(SelectStep /\ IsScan(last'.m) /\ last'.res # Panic) =>
        /\ last'.res.ok => ~PastExpiry(last'.res.msg, clock)
        /\ ("mid" \in DOMAIN last'.m
              /\ StoredIn(queues, last'.m["queue_name"], last'.m["mid"])
              /\ PastExpiry(MsgIn(queues, last'.m["queue_name"], last'.m["mid"]), clock))
             => last'.res = NoMessage
      ]_vars

\* a select naming a stored, unleased, expired message failed
C6_Witness ==
    /\ last.op = "get_message" /\ IsScan(last.m) /\ "mid" \in DOMAIN last.m
    /\ last.res = NoMessage
    /\ StoredIn(queues, last.m["queue_name"], last.m["mid"])
    /\ LET msg == MsgIn(queues, last.m["queue_name"], last.m["mid"])
       IN  msg.reservation = Unreserved /\ PastExpiry(msg, clock)

\* ---- C7 -------------------------------------------------------------------------
\* C7: a browse, get or reserve naming (by id only) a stored, unexpired
\* message whose lease instant the clock has reached returns it, with no
\* operation needed to end the lease; while the lease instant is still ahead it
\* fails with NoMessage.
C7_LeaseLapsesLazily ==
    [][(SelectStep /\ IsScan(last'.m) /\ Filters(last'.m) = {"mid"} /\ last'.res # Panic
          /\ StoredIn(queues, last'.m["queue_name"], last'.m["mid"])
          /\ MsgIn(queues, last'.m["queue_name"], last'.m["mid"]).reservation.tag = "Until") =>
        LET msg == MsgIn(queues, last'.m["queue_name"], last'.m["mid"])
        IN  /\ (msg.reservation.inst <= clock /\ ~PastExpiry(msg, clock))
                  => (last'.res.ok /\ last'.res.msg.mid = msg.mid)
            /\ clock < msg.reservation.inst => last'.res = NoMessage
      ]_vars

\* a browse returned a message whose lease instant had passed while another
\* message of the queue is still leased
C7_Witness ==
    /\ last.op = "get_message" /\ last.m["action"] = "browse"
    /\ last.res.ok
    /\ last.res.msg.reservation.tag = "Until"
    /\ \E i \in 1..Len(MessagesOf(queues, "q1")) :
         ActiveLease(MessagesOf(queues, "q1")[i], clock)

\* ---- C8 -------------------------------------------------------------------------
\* C8: confirm on the id of a stored message that holds no active lease fails
\* with NoMessage and leaves the store, and so the depth, as it was.
C8_AckNeedsLease ==
    [][(SelectStep /\ last'.m["action"] = "confirm" /\ last'.res # Panic
          /\ StoredIn(queues, last'.m["queue_name"], last'.m["mid"])
          /\ ~ActiveLease(MsgIn(queues, last'.m["queue_name"], last'.m["mid"]), clock)) =>
        /\ last'.res = NoMessage
        /\ queues' = queues
        /\ depth(queues', last'.m["queue_name"]) = depth(queues, last'.m["queue_name"])
      ]_vars

\* a confirm failed and the message it named is still stored
C8_Witness ==
    /\ last.op = "get_message" /\ last.m["action"] = "confirm"
    /\ last.res = NoMessage
    /\ StoredIn(queues, last.m["queue_name"], last.m["mid"])

\* ---- C9 -------------------------------------------------------------------------
\* C9: confirm on the id of a message with an active lease returns and removes
\* exactly that message (depth - 1, every other message kept), and every later
\* select naming a removed id fails.
C9_AckRemoves ==
    [][SelectStep =>
        /\ (last'.m["action"] = "confirm" /\ last'.res # Panic
              /\ StoredIn(queues, last'.m["queue_name"], last'.m["mid"])
              /\ ActiveLease(MsgIn(queues, last'.m["queue_name"], last'.m["mid"]), clock)) =>
             LET q == last'.m["queue_name"]
                 msgs == queues[q].messages
                 i == CHOOSE i \in 1..Len(msgs) : msgs[i].mid = last'.m["mid"]
             IN  /\ last'.res.ok /\ last'.res.msg = msgs[i]
                 /\ depth(queues', q) = depth(queues, q) - 1
                 /\ queues'[q].messages = SubSeq(msgs, 1, i - 1) \o SubSeq(msgs, i + 1, Len(msgs))
                 /\ \A o \in DOMAIN queues \ {q} : queues'[o] = queues[o]
        /\ ("mid" \in DOMAIN last'.m /\ returned[last'.m["mid"]] # <<>>) => ~last'.res.ok
      ]_vars

\* a select named an id that a confirm had removed, and failed
C9_Witness ==
    /\ last.op = "get_message" /\ "mid" \in DOMAIN last.m
    /\ returned[last.m["mid"]] = <<"Confirm">>
    /\ last.res = NoMessage

\* ---- C10 ------------------------------------------------------------------------
\* C10: return on the id of a message with an active lease leaves it stored
\* and Unreserved with the depth unchanged, and a browse, get or reserve naming
\* that id as the next store operation succeeds unless the message has expired.
C10_ReleaseFrees ==
    [][SelectStep =>
        /\ (last'.m["action"] = "return" /\ last'.res # Panic
              /\ StoredIn(queues, last'.m["queue_name"], last'.m["mid"])
              /\ ActiveLease(MsgIn(queues, last'.m["queue_name"], last'.m["mid"]), clock)) =>
             LET q == last'.m["queue_name"]
             IN  /\ last'.res.ok /\ last'.res.msg.mid = last'.m["mid"]
                 /\ last'.res.msg.reservation = Unreserved
                 /\ StoredIn(queues', q, last'.m["mid"])
                 /\ MsgIn(queues', q, last'.m["mid"]).reservation = Unreserved
                 /\ depth(queues', q) = depth(queues, q)
        /\ (last.op = "get_message" /\ last.m["action"] = "return" /\ last.res.ok
              /\ IsScan(last'.m) /\ Filters(last'.m) = {"mid"}
              /\ last'.m["mid"] = last.m["mid"]
              /\ last'.m["queue_name"] = last.m["queue_name"]
              /\ last'.res # Panic
              /\ ~PastExpiry(last.res.msg, clock)) =>
             (last'.res.ok /\ last'.res.msg.mid = last.m["mid"])
      ]_vars

\* a return succeeded and the message is stored without a lease
C10_Witness ==
    /\ last.op = "get_message" /\ last.m["action"] = "return"
    /\ last.res.ok /\ last.res.msg.reservation = Unreserved
    /\ StoredIn(queues, last.m["queue_name"], last.m["mid"])
    /\ MsgIn(queues, last.m["queue_name"], last.m["mid"]).reservation = Unreserved

\* ---- C11 ------------------------------------------------------------------------
\* C11: a browse, successful or not, leaves the whole store as it was (every
\* queue's messages with their leases and expiries, every max_serial, the set
\* of queues), and a browse identical to the call before it, made at the same
\* clock reading, returns what that call returned.
C11_PeekIdempotent ==
    [][(SelectStep /\ last'.m["action"] = "browse") =>
        /\ queues' = queues
        /\ DOMAIN queues' = DOMAIN queues
        /\ poisoned' = poisoned
        /\ (last.op = "get_message" /\ last.m = last'.m /\ last.at = clock)
             => last'.res = last.res
      ]_vars

\* a browse has just returned a message that is not the head of a queue of two
C11_Witness ==
    /\ last.op = "get_message" /\ last.m["action"] = "browse" /\ last.at = clock
    /\ last.res.ok
    /\ Len(MessagesOf(queues, "q1")) = 2
    /\ MessagesOf(queues, "q1")[2] = last.res.msg

\* ---- C12 ------------------------------------------------------------------------
\* C12: for a message created with content C and no expiry, a get naming its
\* id while it holds no active lease returns the message with that id, content
\* C and the cursor its create_message returned, and removes it; a get naming
\* the id after a get or confirm has returned it fails with NoMessage.
C12_RoundTrip ==
    [][(SelectStep /\ last'.m["action"] = "get" /\ Filters(last'.m) = {"mid"}
          /\ last'.res # Panic
          /\ made[last'.m["mid"]].some
          /\ made[last'.m["mid"]].v.queue_name = last'.m["queue_name"]
          /\ ~made[last'.m["mid"]].v.expiring) =>
        LET u == last'.m["mid"]
            q == last'.m["queue_name"]
        IN  IF returned[u] # <<>> THEN last'.res = NoMessage
            ELSE /\ StoredIn(queues, q, u)
                 /\ ~ActiveLease(MsgIn(queues, q, u), clock) =>
                      /\ last'.res.ok
                      /\ last'.res.msg.mid = u
                      /\ last'.res.msg.content = made[u].v.content
                      /\ last'.res.msg.cursor = made[u].v.cursor
                      /\ ~StoredIn(queues', q, u)
                      /\ depth(queues', q) = depth(queues, q) - 1
      ]_vars

\* a second get naming the id of a non-expiring message failed after the first took it
C12_Witness ==
    /\ last.op = "get_message" /\ last.m["action"] = "get" /\ Filters(last.m) = {"mid"}
    /\ last.res = NoMessage
    /\ made[last.m["mid"]].some /\ ~made[last.m["mid"]].v.expiring
    /\ returned[last.m["mid"]] = <<"Get">>

\* ---- C13 ------------------------------------------------------------------------
\* C13: the create_message calls that complete on one queue name return the
\* cursors 1, 2, ... in the order they complete, whatever selects, removals,
\* sweeps and creations on other queue names happen in between: the n-th
\* returns n, counted for its own queue name only.
C13_PositionsCount ==
    [][(CreateStep /\ last'.res.ok) =>
        /\ last'.res.msg.cursor = Cardinality(MadeOn(last'.req.queue_name)) + 1
        /\ \A u \in MadeOn(last'.req.queue_name) : made[u].v.cursor < last'.res.msg.cursor
      ]_vars

\* the second create_message on a queue returned cursor 2 after the first
\* message had left the queue
C13_Witness ==
    /\ last.op = "create_message" /\ last.res.ok
    /\ last.res.msg.cursor = 2
    /\ Len(MessagesOf(queues, last.req.queue_name)) = 1

\* ---- C14 ------------------------------------------------------------------------
\* C14: on a queue whose messages were all created without expiry and none of
\* which holds an active lease, an unfiltered get returns the message created
\* earliest among those no get or confirm has returned yet, with the cursor its
\* creation returned, and leaves one message fewer; when all have been
\* returned the depth is 0 and the get fails with NoMessage.  So N creations
\* followed by N gets drain the queue in creation order.
C14_Drain ==
    [][(SelectStep /\ last'.m["action"] = "get" /\ Filters(last'.m) = {}
          /\ last'.res # Panic
          /\ MadeOn(last'.m["queue_name"]) # {}
          /\ \A u \in MadeOn(last'.m["queue_name"]) : ~made[u].v.expiring
          /\ \A i \in 1..Len(MessagesOf(queues, last'.m["queue_name"])) :
                ~ActiveLease(MessagesOf(queues, last'.m["queue_name"])[i], clock)) =>
        LET q == last'.m["queue_name"]
            remaining == {u \in MadeOn(q) : returned[u] = <<>>}
        IN  /\ depth(queues, q) = Cardinality(remaining)
            /\ IF remaining = {}
               THEN last'.res = NoMessage /\ depth(queues', q) = 0
               ELSE /\ last'.res.ok
                    /\ last'.res.msg.mid \in remaining
                    /\ last'.res.msg.cursor = made[last'.res.msg.mid].v.cursor
                    /\ \A u \in remaining : last'.res.msg.cursor <= made[u].v.cursor
                    /\ depth(queues', q) = Cardinality(remaining) - 1
      ]_vars

\* two messages without expiry were created, two unfiltered gets returned them
\* in creation order and a third unfiltered get has just failed on the empty queue
C14_Witness ==
    /\ last.op = "get_message" /\ last.m["action"] = "get" /\ Filters(last.m) = {}
    /\ last.res = NoMessage
    /\ Cardinality(MadeOn("q1")) = 2
    /\ \A u \in MadeOn("q1") : ~made[u].v.expiring /\ returned[u] = <<"Get">>
    /\ "q1" \in DOMAIN queues /\ depth(queues, "q1") = 0

\* ---- C15 ------------------------------------------------------------------------
\* C15: a message that a create_message stored and that is no longer stored
\* was returned by a get or a confirm.
C15_LeavesByTakeOrAck ==
    \A u \in MsgUuids :
        made[u].some => (StoredIn(queues, made[u].v.queue_name, u) \/ returned[u] # <<>>)

\* C15 as amended: a stored message leaves its queue only in a step where a
\* get or a confirm returns it, or in the sweep of a create_message that finds
\* its expiry instant reached; so a message holding an active lease stays
\* stored unless a confirm returns it or such a sweep finds it expired.
C15_LeavesByTakeAckOrSweep ==
    [][\A q \in QueueNames, u \in MsgUuids :
         (StoredIn(queues, q, u) /\ ~StoredIn(queues', q, u)) =>
            \/ /\ SelectStep
               /\ last'.m["action"] \in {"get", "confirm"}
               /\ last'.res.ok /\ last'.res.msg.mid = u
               /\ ActiveLease(MsgIn(queues, q, u), clock) => last'.m["action"] = "confirm"
            \/ /\ last'.op = "purge_expired_messages"
               /\ PastExpiry(MsgIn(queues, q, u), clock)
      ]_vars

\* the sweep has just removed a message that no get or confirm ever returned
\* and whose latest lease was asked to last beyond the present instant
C15_Witness ==
    /\ last.op = "purge_expired_messages" /\ last.res >= 1
    /\ \E u \in MsgUuids :
         /\ made[u].some /\ returned[u] = <<>>
         /\ ~StoredIn(queues, made[u].v.queue_name, u)
         /\ promised[u].some /\ clock < promised[u].v

\* ---- C16 ------------------------------------------------------------------------
\* C16: get_info on a queue of the store returns the number of messages stored
\* in that queue at that moment, those with an active lease and those whose
\* expiry has passed included, and the depth of no queue changes in a step
\* that only advances the clock.
C16_DepthCountsStored ==
    [][/\ (InfoStep /\ last'.res # Panic /\ last'.m["queue_name"] \in DOMAIN queues) =>
            /\ last'.res.ok
            /\ last'.res.queue_name = last'.m["queue_name"]
            /\ last'.res.depth =
                  Cardinality({u \in MsgUuids : StoredIn(queues, last'.m["queue_name"], u)})
       /\ clock' # clock =>
            /\ DOMAIN queues' = DOMAIN queues
            /\ \A q \in DOMAIN queues : depth(queues', q) = depth(queues, q)
      ]_vars

\* get_info has just counted a message whose expiry instant has passed
C16_Witness ==
    /\ last.op = "get_info" /\ last.res.ok /\ last.res.depth >= 1
    /\ \E i \in 1..Len(MessagesOf(queues, last.res.queue_name)) :
         PastExpiry(MessagesOf(queues, last.res.queue_name)[i], clock)

\* ---- C17 ------------------------------------------------------------------------
\* C17: the sweep that opens a create_message removes from every queue of the
\* store, whatever the queue the call is for, exactly the messages whose expiry
\* instant has been reached, keeping the others as they are and in their
\* order; the insertion that completes the call removes nothing, and a message
\* once removed is never stored again.
C17_SweepOnCreate ==
    [][/\ PurgeStep =>
            /\ DOMAIN queues' = DOMAIN queues
            /\ \A q \in DOMAIN queues :
                 LET old == queues[q].messages
                     new == queues'[q].messages
                     kept == {i \in 1..Len(old) : ~PastExpiry(old[i], clock)}
                 IN  /\ Len(new) = Cardinality(kept)
                     /\ \A i \in kept :
                          new[Cardinality({j \in kept : j <= i})] = old[i]
                     /\ queues'[q].max_serial = queues[q].max_serial
            /\ last'.res = Cardinality({u \in MsgUuids : \E q \in DOMAIN queues :
                                          StoredIn(queues, q, u) /\ ~StoredIn(queues', q, u)})
       /\ CreateStep =>
            \A q \in DOMAIN queues, u \in MsgUuids :
                StoredIn(queues, q, u) => StoredIn(queues', q, u)
       /\ \A u \in MsgUuids :
            (made[u].some /\ \A q \in DOMAIN queues : ~StoredIn(queues, q, u))
              => \A q \in DOMAIN queues' : ~StoredIn(queues', q, u)
      ]_vars

\* the sweep of a create_message for a queue name that is not yet in the store
\* has just removed a message of another queue
C17_Witness ==
    /\ last.op = "purge_expired_messages" /\ last.res >= 1
    /\ \E p \in Procs : pc[p] = "insert"
    /\ \A p \in Procs : pc[p] = "insert" => creq[p].queue_name = "q2"
    /\ "q2" \notin DOMAIN queues

\* ---- C18 ------------------------------------------------------------------------
\* C18: every create_message call returns a message: one with an id no
\* earlier create_message returned, the next cursor of its queue, no lease, the
\* expiry instant of the request or Permanent when it has none, and the
\* content and cid of the request; that message is stored at the back of the
\* queue of that name, which exists afterwards whether or not it did before.
C18_CreateTotal ==
    [][(last'.op = "create_message" /\ last' # last) =>
        /\ last'.res.ok
        /\ LET req == last'.req
               msg == last'.res.msg
           IN  /\ ~made[msg.mid].some
               /\ msg.cursor = Cardinality(MadeOn(req.queue_name)) + 1
               /\ msg.reservation = Unreserved
               /\ msg.expiry = (IF req.expiry.some THEN Expire(req.expiry.v) ELSE Permanent)
               /\ msg.content = req.content
               /\ msg.cid = req.cid
               /\ req.queue_name \in DOMAIN queues'
               /\ queues'[req.queue_name].messages =
                     Append(MessagesOf(queues, req.queue_name), msg)
      ]_vars

\* ---- C19 ------------------------------------------------------------------------
\* C19: no step removes a queue from the store; queue_list returns exactly the
\* names on which a create_message has completed, and get_info on such a name
\* returns its depth, 0 when gets, confirms and sweeps have emptied it, never
\* NoQueue.
C19_QueuesPersist ==
    [][/\ DOMAIN queues \subseteq DOMAIN queues'
       /\ (ListStep /\ last'.res # Panic) =>
            /\ last'.res.ok
            /\ last'.res.names = {q \in QueueNames : MadeOn(q) # {}}
       /\ (InfoStep /\ last'.res # Panic /\ MadeOn(last'.m["queue_name"]) # {}) =>
            /\ last'.res.ok
            /\ (\A u \in MsgUuids : ~StoredIn(queues, last'.m["queue_name"], u))
                 => last'.res.depth = 0
      ]_vars

\* queue_list has just named a queue that holds no message after a confirm
\* returned the only message created on it
C19_Witness ==
    /\ last.op = "queue_list" /\ last.res.ok
    /\ \E q \in last.res.names :
         /\ queues[q].messages = <<>>
         /\ \E u \in MadeOn(q) : returned[u] = <<"Confirm">>

\* ---- C20 ------------------------------------------------------------------------
\* C20: on a queue name on which no create_message has completed, every
\* get_message (browse, get, reserve, confirm, return) fails with NoMessage and
\* get_info fails with NoQueue, and neither adds the name to the store: the
\* store and so the result of queue_list are as before.
C20_UnknownQueue ==
    [][/\ (SelectStep /\ last'.res # Panic /\ MadeOn(last'.m["queue_name"]) = {}) =>
            /\ last'.res = NoMessage
            /\ queues' = queues
            /\ DOMAIN queues' = DOMAIN queues
       /\ (InfoStep /\ last'.res # Panic /\ MadeOn(last'.m["queue_name"]) = {}) =>
            /\ last'.res = NoQueue
            /\ queues' = queues
            /\ DOMAIN queues' = DOMAIN queues
      ]_vars

\* a return naming the id of a message of q1 has just failed on q2, which no
\* create_message has used, and q2 is still not in the store
C20_Witness ==
    /\ last.op = "get_message" /\ last.m["action"] = "return"
    /\ last.m["queue_name"] = "q2"
    /\ last.res = NoMessage
    /\ MadeOn("q2") = {} /\ "q2" \notin DOMAIN queues
    /\ "mid" \in DOMAIN last.m /\ StoredIn(queues, "q1", last.m["mid"])

\* ---- C21 ------------------------------------------------------------------------
\* C21: no get_message call of any action (browse, get, reserve, confirm,
\* return) returns a message whose expiry instant the clock has reached.
C21_ExpiredNeverSelected ==
    [][(SelectStep /\ last'.res.ok) => ~PastExpiry(last'.res.msg, clock)]_vars

\* C21 as amended: a message whose expiry instant has been reached stays so
\* while it is stored, and no browse, get or reserve returns it, whatever its
\* lease; a confirm or return returns it only when it names its id while its
\* lease is active.
C21_ExpiredOnlyAckOrRelease ==
    [][/\ (SelectStep /\ last'.res.ok /\ PastExpiry(last'.res.msg, clock)) =>
            /\ last'.m["action"] \in {"confirm", "return"}
            /\ last'.m["mid"] = last'.res.msg.mid
            /\ ActiveLease(MsgIn(queues, last'.m["queue_name"], last'.m["mid"]), clock)
       /\ \A q \in QueueNames, u \in MsgUuids :
            (StoredIn(queues, q, u) /\ StoredIn(queues', q, u)
               /\ PastExpiry(MsgIn(queues, q, u), clock))
              => PastExpiry(MsgIn(queues', q, u), clock')
      ]_vars

\* a confirm has just returned a message whose expiry instant had been reached
C21_Witness ==
    /\ last.op = "get_message" /\ last.m["action"] = "confirm"
    /\ last.res.ok
    /\ PastExpiry(last.res.msg, last.at)

\* ---- C22 ------------------------------------------------------------------------
\* C22: options whose action is query never reach GetMessageOptions::matches
\* or an arm of get_message_impl: on a usable store get_message given such
\* options returns an error value, whether the queue is absent, empty or not,
\* and get_info given them returns the summary or NoQueue.
C22_InfoNeverMatched ==
    [][/\ (SelectStep /\ last'.m["action"] = "query" /\ ~poisoned) =>
            (last'.res = NoMessage /\ ~poisoned')
       /\ (InfoStep /\ ~poisoned) =>
            (last'.res = NoQueue \/ last'.res.ok)
      ]_vars

\* ---- C23 ------------------------------------------------------------------------
\* C23: every call of create_message, get_message, get_info and queue_list
\* returns a result or an error, and the lock of the store is usable after it:
\* no call fails because of an earlier one.
C23_LockUsable ==
    /\ ~poisoned
    /\ last.op \in {"get_message", "create_message", "get_info", "queue_list"}
         => last.res # Panic

\* ---- C24 ------------------------------------------------------------------------
\* C24: a well-formed parameter map yields options iff reserve carries
\* reservation_seconds, confirm and return carry mid, and browse and query
\* carry no reservation_seconds (get has no requirement); a missing required
\* key gives MissingParameter naming it, a forbidden key InvalidParameter
\* naming it, and no options value holds a combination the table excludes.
C24_ActionValidation ==
    (last.op = "try_from") =>
        LET m == last.m
            res == last.res
        IN  /\ WellFormed(m) =>
                 LET a == m["action"]
                     lacksLease == a = "reserve" /\ "reservation_seconds" \notin DOMAIN m
                     lacksId == a \in {"confirm", "return"} /\ "mid" \notin DOMAIN m
                     hasLease == a \in {"browse", "query"} /\ "reservation_seconds" \in DOMAIN m
                 IN  /\ res.ok <=> ~(lacksLease \/ lacksId \/ hasLease)
                     /\ lacksLease => (res.err = "MissingParameter"
                                         /\ res.field \in NamesOf("reservation_seconds"))
                     /\ lacksId => (res.err = "MissingParameter" /\ res.field \in NamesOf("mid"))
                     /\ hasLease => (res.err = "InvalidParameter"
                                       /\ res.field \in NamesOf("reservation_seconds"))
            /\ res.ok =>
                 /\ res.v.action = "Reserve" => res.v.reservation.some
                 /\ res.v.action \in {"Confirm", "Return"} => res.v.mid.some
                 /\ res.v.action \in {"Browse", "Query"} => ~res.v.reservation.some

\* a well-formed browse map that carries reservation_seconds has been refused
C24_Witness ==
    /\ last.op = "try_from"
    /\ WellFormed(last.m)
    /\ last.m["action"] = "browse" /\ "reservation_seconds" \in DOMAIN last.m
    /\ last.res = Err("InvalidParameter", "reservation_seconds")

\* ---- C25 ------------------------------------------------------------------------
\* C25: for each optional key (mid, cid, reservation_seconds, expiry_seconds,
\* after), a parameter map in which that key is present and malformed and
\* every other key is valid is refused with InvalidParameter naming that key.
C25_MalformedNamed ==
    (last.op = "try_from") =>
        \A k \in ParamKeys \ {"queue_name", "action"} :
            (/\ {"queue_name", "action", k} \subseteq DOMAIN last.m
             /\ ~FieldParses(last.m, k)
             /\ \A o \in DOMAIN last.m \ {k} : FieldParses(last.m, o)) =>
                /\ ~last.res.ok
                /\ last.res.err = "InvalidParameter"
                /\ last.res.field \in NamesOf(k)

\* ---- C26 ------------------------------------------------------------------------
\* C26: try_from fails with MissingParameter(queue_name) when the map has no
\* queue_name, with MissingParameter(action) when it has a valid queue_name
\* and no action, and with InvalidParameter whose text names action when the
\* action is not exactly one of browse, get, reserve, confirm, return, query;
\* the store is as it was when the error is produced.
C26_RequiredKeys ==
    (last.op = "try_from") =>
        LET m == last.m
            tokens == {"browse", "get", "reserve", "confirm", "return", "query"}
        IN  /\ "queue_name" \notin DOMAIN m
                 => last.res = Err("MissingParameter", "queue_name")
            /\ ("queue_name" \in DOMAIN m /\ FieldParses(m, "queue_name")
                   /\ "action" \notin DOMAIN m)
                 => last.res = Err("MissingParameter", "action")
            /\ ("queue_name" \in DOMAIN m /\ FieldParses(m, "queue_name")
                   /\ "action" \in DOMAIN m /\ m["action"] \notin tokens)
                 => /\ ~last.res.ok
                    /\ last.res.err = "InvalidParameter"
                    /\ last.res.field = m["action"] \o " is not valid for action"
            /\ ~last.res.ok => (queues = <<>> /\ ~poisoned /\ uuids = 0)

\* a map whose action differs from browse only in case has been refused
C26_Witness ==
    /\ last.op = "try_from"
    /\ "action" \in DOMAIN last.m /\ last.m["action"] = "Browse"
    /\ ~last.res.ok /\ last.res.err = "InvalidParameter"
    /\ last.res.field = "Browse is not valid for action"

\* ---- C27 ------------------------------------------------------------------------
\* C27: in every reachable state two different places of the store, in one
\* queue or in two, never hold messages with the same id, and a create_message
\* that completes never returns an id an earlier create_message returned.
C27_IdsUnique ==
    /\ [](\A s, t \in Slots(queues) :
            queues[s[1]].messages[s[2]].mid = queues[t[1]].messages[t[2]].mid => s = t)
    /\ [][(CreateStep /\ last'.res.ok) => ~made[last'.res.msg.mid].some]_vars

\* a second create_message has completed while the message of the first is
\* stored, the two on different queues
C27_Witness ==
    /\ last.op = "create_message" /\ last.res.ok
    /\ \E u \in MsgUuids \ {last.res.msg.mid} :
         /\ made[u].some /\ made[u].v.queue_name # last.req.queue_name
         /\ StoredIn(queues, made[u].v.queue_name, u)
    /\ StoredIn(queues, last.req.queue_name, last.res.msg.mid)

\* ---- C28 ------------------------------------------------------------------------
\* C28: in every reachable state the messages of each queue stand in strictly
\* ascending cursor order and max_serial is at least every stored cursor; a
\* get or confirm that returns a message leaves the queue as it was with that
\* one element deleted, and the sweep leaves every queue as it was with some
\* elements deleted, the remaining ones in their old order.
C28_Ordered ==
    /\ [](\A q \in DOMAIN queues :
            /\ Ascending(queues[q].messages)
            /\ \A i \in 1..Len(queues[q].messages) :
                  queues[q].messages[i].cursor <= queues[q].max_serial)
    /\ [][/\ (SelectStep /\ last'.res.ok /\ last'.m["action"] \in {"get", "confirm"}) =>
              LET q == last'.m["queue_name"]
              IN  /\ Filtered(queues[q].messages, queues'[q].messages)
                  /\ Len(queues'[q].messages) = Len(queues[q].messages) - 1
                  /\ ~StoredIn(queues', q, last'.res.msg.mid)
          /\ PurgeStep =>
              \A q \in DOMAIN queues :
                  Filtered(queues[q].messages, queues'[q].messages)
      ]_vars

\* a get by id has just taken the middle one of three messages, and the two
\* that remain are the first and the third created
C28_Witness ==
    /\ last.op = "get_message" /\ last.res.ok /\ last.m["action"] = "get"
    /\ last.res.msg.cursor = 2
    /\ Len(MessagesOf(queues, "q1")) = 2
    /\ queues["q1"].messages[1].cursor = 1
    /\ queues["q1"].messages[2].cursor = 3

\* ---- C29 ------------------------------------------------------------------------
\* C29: a get_message that returns a message leaves every other message of
\* its queue as it was and where it was among the others, leaves every other
\* queue as it was, and changes neither any queue's max_serial nor the set of
\* queue names.
C29_SelectFrame ==
    [][(SelectStep /\ last'.res.ok) =>
          LET q == last'.m["queue_name"]
              u == last'.res.msg.mid
          IN  /\ DOMAIN queues' = DOMAIN queues
              /\ \A x \in DOMAIN queues :
                    /\ queues'[x].max_serial = queues[x].max_serial
                    /\ x # q => queues'[x] = queues[x]
              /\ Others(queues'[q].messages, u) = Others(queues[q].messages, u)
      ]_vars

\* a reserve has just returned one of two messages of q2; the other message
\* of q2 carries no lease
C29_Witness ==
    /\ last.op = "get_message" /\ last.res.ok /\ last.m["action"] = "reserve"
    /\ Len(MessagesOf(queues, "q2")) = 2
    /\ \E i \in 1..2 : /\ queues["q2"].messages[i].mid # last.res.msg.mid
                        /\ queues["q2"].messages[i].reservation = Unreserved

\* ---- C30 ------------------------------------------------------------------------
\* C30: over every step, a message that is stored before and after has the same
\* mid, cid, content, cursor and expiry; a reserve or return that returns a
\* message leaves it stored and equal to what it was except for its
\* reservation, also when the request carries expiry_seconds.
C30_FieldsFixed ==
    [][/\ \A q \in DOMAIN queues, u \in DOMAIN made :
             (StoredIn(queues, q, u) /\ StoredIn(queues', q, u)) =>
                 LET old == MsgIn(queues, q, u)
                     new == MsgIn(queues', q, u)
                 IN  /\ new.mid = old.mid /\ new.cid = old.cid
                     /\ new.content = old.content /\ new.cursor = old.cursor
                     /\ new.expiry = old.expiry
       /\ (SelectStep /\ last'.res.ok /\ last'.m["action"] \in {"reserve", "return"}) =>
              LET q == last'.m["queue_name"]
                  u == last'.res.msg.mid
              IN  /\ StoredIn(queues, q, u) /\ StoredIn(queues', q, u)
                  /\ MsgIn(queues', q, u) = last'.res.msg
                  /\ [last'.res.msg EXCEPT !.reservation = MsgIn(queues, q, u).reservation]
                        = MsgIn(queues, q, u)
      ]_vars

\* a reserve that carried expiry_seconds has just returned a message created
\* with a cid and without expiry, and the stored message has no expiry
C30_Witness ==
    /\ last.op = "get_message" /\ last.res.ok /\ last.m["action"] = "reserve"
    /\ "expiry_seconds" \in DOMAIN last.m
    /\ last.res.msg.cid = Some("c1")
    /\ MsgIn(queues, "q1", last.res.msg.mid).expiry = Permanent
    /\ MsgIn(queues, "q1", last.res.msg.mid).reservation.tag = "Until"

\* ---- C31 ------------------------------------------------------------------------
\* C31: a browse, get or reserve returns the message with the lowest cursor
\* among the messages of its queue that are neither leased nor expired at that
\* moment and pass every filter the request carries (mid equal, cid equal,
\* cursor above after); when no message passes it fails with NoMessage, also
\* when the queue holds messages that an unfiltered request would return.
C31_FilteredSelection ==
    [][(SelectStep /\ IsScan(last'.m) /\ last'.res # Panic) =>
        LET msgs == MessagesOf(queues, last'.m["queue_name"])
            pass == {i \in 1..Len(msgs) :
                       /\ ~ActiveLease(msgs[i], clock) /\ ~PastExpiry(msgs[i], clock)
                       /\ PassesFilters(last'.m, msgs[i])}
        IN  IF pass = {} THEN last'.res = NoMessage
            ELSE /\ last'.res.ok
                 /\ \E i \in pass :
                      /\ last'.res.msg.mid = msgs[i].mid
                      /\ \A j \in pass : msgs[i].cursor <= msgs[j].cursor
      ]_vars

\* a select filtered by cid alone has returned the second message of the
\* queue while the first, created without cid, is stored and unleased
C31_Witness ==
    /\ last.op = "get_message" /\ IsScan(last.m) /\ Filters(last.m) = {"cid"}
    /\ last.res.ok /\ last.res.msg.cursor = 2
    /\ \E i \in 1..Len(MessagesOf(queues, "q1")) :
         /\ queues["q1"].messages[i].cursor = 1
         /\ queues["q1"].messages[i].cid = None
         /\ queues["q1"].messages[i].reservation = Unreserved

\* ---- C32 ------------------------------------------------------------------------
\* C32: a get_message that fails with NoMessage, on an absent queue or for
\* want of a matching message, leaves the store as it was: the same queue
\* names, the same messages with the same leases, the same max_serial.
C32_NoMessageFrame ==
    [][(SelectStep /\ last'.res = NoMessage) =>
          /\ queues' = queues
          /\ poisoned' = poisoned
      ]_vars

\* a select on q2 has failed with NoMessage while q2 holds a message under
\* an active lease
C32_Witness ==
    /\ last.op = "get_message" /\ last.res = NoMessage
    /\ \E i \in 1..Len(MessagesOf(queues, "q2")) :
         ActiveLease(queues["q2"].messages[i], clock)

\* ---- C33 ------------------------------------------------------------------------
\* C33: a create_message that completes on a queue returns a cursor strictly
\* above every cursor an earlier create_message returned on that queue,
\* whether those messages are still stored or were removed by get, confirm
\* or the sweep, and also when the queue has become empty.
C33_CursorNotReused ==
    [][(CreateStep /\ last'.res.ok) =>
          \A u \in DOMAIN made :
              (made[u].some /\ made[u].v.queue_name = last'.req.queue_name)
                => made[u].v.cursor < last'.res.msg.cursor
      ]_vars

\* the third create_message on q1 has returned cursor 3 after both earlier
\* messages had left the queue
C33_Witness ==
    /\ last.op = "create_message" /\ last.res.ok
    /\ last.res.msg.cursor = 3
    /\ Len(MessagesOf(queues, "q1")) = 1
    /\ \A u \in DOMAIN made : made[u].some

\* ---- C34 ------------------------------------------------------------------------
\* C34: a message whose lease has lapsed, or which the call just before
\* released with return, still has the cursor its creation returned, and an
\* unfiltered browse, get or reserve issued while it is unexpired returns it
\* or a message with a lower cursor, never a message created after it.
C34_KeepsPlace ==
    [][(SelectStep /\ IsScan(last'.m) /\ Filters(last'.m) = {} /\ last'.res # Panic) =>
        LET q == last'.m["queue_name"]
            msgs == MessagesOf(queues, q)
            lapsed == {i \in 1..Len(msgs) :
                         /\ msgs[i].reservation.tag = "Until"
                         /\ msgs[i].reservation.inst <= clock}
            released == {i \in 1..Len(msgs) :
                           /\ last.op = "get_message" /\ last.res.ok
                           /\ last.m["action"] = "return" /\ last.m["queue_name"] = q
                           /\ msgs[i].mid = last.res.msg.mid}
        IN  \A i \in lapsed \cup released :
              /\ msgs[i].cursor = made[msgs[i].mid].v.cursor
              /\ ~PastExpiry(msgs[i], clock) =>
                    /\ last'.res.ok
                    /\ last'.res.msg.cursor <= msgs[i].cursor
      ]_vars

\* an unfiltered get has returned the first message of the queue, whose
\* lease had lapsed, while the message created after it is stored unleased
C34_Witness ==
    /\ last.op = "get_message" /\ last.m["action"] = "get" /\ Filters(last.m) = {}
    /\ last.res.ok /\ last.res.msg.cursor = 1
    /\ last.res.msg.reservation.tag = "Until"
    /\ last.res.msg.reservation.inst <= last.at
    /\ \E i \in 1..Len(MessagesOf(queues, "q1")) :
         /\ queues["q1"].messages[i].cursor = 2
         /\ queues["q1"].messages[i].reservation = Unreserved

\* ---- C35 ------------------------------------------------------------------------
\* C35: a confirm or return succeeds exactly when its queue holds a message
\* with the mid of the request under an active lease, and then returns that
\* message, whatever cid and after the request carries: also when the cid
\* differs from the message's and when after is not below its cursor.
C35_AckByLeaseAndId ==
    [][(SelectStep /\ last'.m["action"] \in {"confirm", "return"} /\ last'.res # Panic) =>
        LET msgs == MessagesOf(queues, last'.m["queue_name"])
            held == {i \in 1..Len(msgs) :
                       msgs[i].mid = last'.m["mid"] /\ ActiveLease(msgs[i], clock)}
        IN  IF held = {} THEN last'.res = NoMessage
            ELSE /\ last'.res.ok
                 /\ last'.res.msg.mid = last'.m["mid"]
      ]_vars

\* a confirm with cid c1 and after 1 has returned the leased message u1, which
\* was created without cid and has cursor 1
C35_Witness ==
    /\ last.op = "get_message" /\ last.m["action"] = "confirm"
    /\ Filters(last.m) = {"mid", "cid", "after"}
    /\ last.res.ok
    /\ last.res.msg.cid = None
    /\ last.res.msg.cursor = 1

\* ---- C36 ------------------------------------------------------------------------
\* C36: in every reachable state, with the store and the clock held as they
\* are, an unfiltered browse followed by browses with after set to the cursor
\* of the message last returned yields the messages of the queue that are
\* neither leased nor expired, each once and in ascending cursor order, and
\* the browse after the last of them finds no message.  Step by step: a browse
\* with after = c issued right after a browse that returned cursor c, at the
\* same instant, returns the unleased unexpired message with the lowest
\* cursor above c, fails with NoMessage when there is none, and leaves the
\* store as it was.
C36_Pagination ==
    /\ [](\A q \in DOMAIN queues :
            LET msgs == queues[q].messages
                pages == Pages(queues[q], q, Absent, clock, Len(msgs))
            IN  /\ pages = SelectSeq(msgs, LAMBDA x : ~ActiveLease(x, clock) /\ ~PastExpiry(x, clock))
                /\ Ascending(pages))
    /\ [][(/\ SelectStep /\ last'.res # Panic
            /\ last'.m["action"] = "browse" /\ Filters(last'.m) = {"after"}
            /\ last.op = "get_message" /\ last.res.ok /\ last.at = clock
            /\ last.m["action"] = "browse" /\ Filters(last.m) \subseteq {"after"}
            /\ last.m["queue_name"] = last'.m["queue_name"]
            /\ last'.m["after"] = UsizeToString(last.res.msg.cursor)) =>
          LET msgs == MessagesOf(queues, last'.m["queue_name"])
              rest == {i \in 1..Len(msgs) :
                         /\ ~ActiveLease(msgs[i], clock) /\ ~PastExpiry(msgs[i], clock)
                         /\ msgs[i].cursor > last.res.msg.cursor}
          IN  /\ queues' = queues
              /\ IF rest = {} THEN last'.res = NoMessage
                  ELSE /\ last'.res.ok
                       /\ \E i \in rest :
                            /\ last'.res.msg = msgs[i]
                            /\ \A j \in rest : msgs[i].cursor <= msgs[j].cursor
      ]_vars

\* a browse with after = 1 has returned the message at cursor 3 while the
\* message at cursor 2 is stored under an active lease and the one at cursor 1
\* is stored unleased
C36_Witness ==
    /\ last.op = "get_message" /\ last.m["action"] = "browse"
    /\ Filters(last.m) = {"after"} /\ last.m["after"] = "1"
    /\ last.res.ok /\ last.res.msg.cursor = 3 /\ last.at = clock
    /\ Len(MessagesOf(queues, "q1")) = 3
    /\ ActiveLease(queues["q1"].messages[2], clock)
    /\ ~ActiveLease(queues["q1"].messages[1], clock)
    /\ ~PastExpiry(queues["q1"].messages[1], clock)

\* ---- C37 ------------------------------------------------------------------------
\* C37: a create_message whose request has an expiry of 0 s stores its message,
\* one more than the queue held after the sweep of that call, although the
\* expiry instant has been reached; get_info counts the message; no browse,
\* get or reserve returns it; and it leaves the store only in the sweep of a
\* later create_message, which does remove it.
C37_BornExpired ==
    [][/\ (CreateStep /\ last'.res.ok /\ last'.req.content = Zero.content) =>
            LET q == last'.req.queue_name
            IN  /\ PastExpiry(last'.res.msg, clock)
                /\ StoredIn(queues', q, last'.res.msg.mid)
                /\ Len(queues'[q].messages) = Len(MessagesOf(queues, q)) + 1
       /\ \A u \in DOMAIN made : \A q \in DOMAIN queues :
            (BornExpired(u) /\ StoredIn(queues, q, u)) =>
                /\ (InfoStep /\ last'.res # Panic /\ last'.m["queue_name"] = q) =>
                       /\ last'.res.ok
                       /\ last'.res.depth = Len(queues[q].messages)
                       /\ last'.res.depth >= 1
                /\ (SelectStep /\ IsScan(last'.m) /\ last'.res.ok) => last'.res.msg.mid # u
                /\ PurgeStep => ~StoredIn(queues', q, u)
                /\ ~PurgeStep => StoredIn(queues', q, u)
      ]_vars

\* an unfiltered select has failed with NoMessage on a queue whose only
\* message was created with an expiry of 0 s
C37_Witness ==
    /\ last.op = "get_message" /\ IsScan(last.m) /\ last.res = NoMessage
    /\ Len(MessagesOf(queues, "q1")) = 1
    /\ BornExpired(queues["q1"].messages[1].mid)

\* ---- C38 ------------------------------------------------------------------------
\* C38: when the clock keeps advancing, reserve requests cease and a consumer
\* keeps issuing unfiltered gets on q1, every message stored on q1 that was
\* created without expiry is eventually returned by a get, the messages that
\* were reserved and neither confirmed nor returned included.
C38_NoStranding ==
    \A u \in MsgUuids :
        (made[u].some /\ ~made[u].v.expiring /\ StoredIn(queues, "q1", u))
            ~> (returned[u] = <<"Get">>)

\* a get has returned a message created without expiry whose lease, never
\* confirmed nor returned, had lapsed
C38_Witness ==
    /\ last.op = "get_message" /\ last.m["action"] = "get" /\ last.res.ok
    /\ returned[last.res.msg.mid] = <<"Get">>
    /\ ~made[last.res.msg.mid].v.expiring
    /\ promised[last.res.msg.mid].some
    /\ last.res.msg.reservation.tag = "Until"

\* ---- C39 ------------------------------------------------------------------------
\* C39: the store is keyed by names without surrounding blanks and never by
\* the empty name; a raw name of blanks only is rejected before the store is
\* called, by create and by select alike; a message created under a raw name
\* is on the queue of the name without its blanks, with a cursor from that
\* queue's one counter, and a get under any raw name with the same letters
\* returns the first message of that queue.
C39_TrimmedNames ==
    /\ [](/\ \A q \in DOMAIN queues : q \in {Normal(raw) : raw \in RawNames} \ {""}
          /\ \A u \in DOMAIN made : made[u].some =>
                made[u].v.queue_name = Normal(made[u].v.content)
          /\ \A u, v \in DOMAIN made :
                (made[u].some /\ made[v].some /\ u # v
                   /\ Normal(made[u].v.content) = Normal(made[v].v.content))
                  => made[u].v.cursor # made[v].v.cursor)
    /\ [][/\ (last'.op = "QueueName::try_from" /\ last' # last) =>
                /\ Normal(last'.raw) = ""
                /\ queues' = queues
          /\ SelectStep =>
                LET q == Normal(last'.m["queue_name"])
                IN  /\ q # ""
                    /\ IF MessagesOf(queues, q) = <<>> THEN last'.res = NoMessage
                       ELSE /\ last'.res = Ok(queues[q].messages[1])
                            /\ queues'[q].messages = Tail(queues[q].messages)
       ]_vars

\* a get under the raw name "q1 " has returned the message created under the
\* raw name " q1", the first of two messages of queue q1
C39_Witness ==
    /\ last.op = "get_message" /\ last.m["queue_name"] = "q1 "
    /\ last.res.ok /\ last.res.msg.content = " q1" /\ last.res.msg.cursor = 1
    /\ DOMAIN queues = {"q1"}
    /\ Len(queues["q1"].messages) = 1
    /\ queues["q1"].messages[1].cursor = 2

====
